---------------------------- MODULE Spec2Model ----------------------------
(***************************************************************************)
(* A model of utm-manager: the cookie store (src/utils/cookie.ts), the     *)
(* attribution engine (src/utm.ts), the published entry point              *)
(* (src/index.ts), the script-tag build (src/standalone.ts) and the React  *)
(* hook (src/frameworks/react/index.tsx).                                  *)
(*                                                                         *)
(* Representation.  A JavaScript string is a sequence of one-character     *)
(* strings, so that startsWith, toLowerCase, includes and                  *)
(* encodeURIComponent are computed character by character.  null and       *)
(* undefined are the one-element sequences Null and Undefined, which no    *)
(* string equals.  An object (the Map memoryStorage, a config, an options  *)
(* bag, a Record<string,string>) is a function whose DOMAIN is the set of  *)
(* keys it has; a key whose value is undefined is modelled as an absent    *)
(* key.  Date.now() is the variable now, counted in seconds: toUTCString   *)
(* drops the milliseconds.                                                 *)
(***************************************************************************)
EXTENDS Integers, Sequences, FiniteSets, TLC

VARIABLES
    memoryStorage,   \* cookie.ts: const memoryStorage = new Map<string, StoredCookie>()
    documentCookie,  \* the browser's cookie jar behind document.cookie
    currentConfig,   \* utm.ts: let currentConfig
    indexConfig,     \* index.ts: let currentConfig
    now,             \* Date.now(), in seconds
    hook,            \* react/index.tsx: the component that renders useUTMs
    backend,         \* what an assignment to document.cookie does: "stores" or "throws"
    tabStorage,      \* the memoryStorage of a second tab of the same browser
    call             \* the last call made into the library and its outcome

vars ==
    <<memoryStorage, documentCookie, currentConfig, indexConfig, now, hook, backend,
      tabStorage, call>>

\* The record of a call in the variable call: the operation, its argument and
\* the outcome r (whether it threw, what it returned, how many times it called
\* console.error, the details of the events it dispatched, how many times it
\* invoked the attribution callback, the arguments of its onUpdate calls).
\* The operation and the argument are its first fields, so
\* that the records of two different calls are told apart before their
\* return values, which may be of different kinds, are compared.
Called(op, arg, r) ==
    [op |-> op, arg |-> arg, threw |-> r.threw, ret |-> r.ret, errors |-> r.errors,
     events |-> IF "events" \in DOMAIN r THEN r.events ELSE <<>>,
     invoked |-> IF "invoked" \in DOMAIN r THEN r.invoked ELSE 0,
     updates |-> IF "updates" \in DOMAIN r THEN r.updates ELSE <<>>]

\* The outcome of a call that returns ret and logs nothing
Returned(ret) == [threw |-> FALSE, ret |-> ret, errors |-> 0]

-----------------------------------------------------------------------------
(* Strings *)

Null == <<"null">>
Undefined == <<"undefined">>

UpperCase == <<"A","B","C","D","E","F","G","H","I","J","K","L","M",
               "N","O","P","Q","R","S","T","U","V","W","X","Y","Z">>
LowerCase == <<"a","b","c","d","e","f","g","h","i","j","k","l","m",
               "n","o","p","q","r","s","t","u","v","w","x","y","z">>
Digits == {"0","1","2","3","4","5","6","7","8","9"}

Range(s) == {s[i] : i \in DOMAIN s}

\* String.prototype.toLowerCase
toLowerCase(s) ==
    [i \in DOMAIN s |->
        IF \E j \in DOMAIN UpperCase : UpperCase[j] = s[i]
        THEN LowerCase[CHOOSE j \in DOMAIN UpperCase : UpperCase[j] = s[i]]
        ELSE s[i]]

\* String.prototype.startsWith
startsWith(s, prefix) ==
    /\ Len(s) >= Len(prefix)
    /\ SubSeq(s, 1, Len(prefix)) = prefix

\* String.prototype.includes
includes(s, sub) ==
    \E i \in 1..(Len(s) - Len(sub) + 1) : SubSeq(s, i, i + Len(sub) - 1) = sub

\* The characters encodeURIComponent leaves alone: A-Z a-z 0-9 - _ . ! ~ * ' ( )
UriUnreserved ==
    Range(UpperCase) \cup Range(LowerCase) \cup Digits
        \cup {"-", "_", ".", "!", "~", "*", "'", "(", ")"}

\* The escape of one reserved ASCII character: % and its two hexadecimal digits
UriEscape(c) ==
    CASE c = " " -> <<"%","2","0">>
      [] c = "\"" -> <<"%","2","2">>
      [] c = "&" -> <<"%","2","6">>
      [] c = "+" -> <<"%","2","B">>
      [] c = "," -> <<"%","2","C">>
      [] c = "/" -> <<"%","2","F">>
      [] c = ";" -> <<"%","3","B">>
      [] c = "=" -> <<"%","3","D">>
      [] c = "@" -> <<"%","4","0">>
      [] c = "{" -> <<"%","7","B">>
      [] c = "}" -> <<"%","7","D">>
      [] c = ":" -> <<"%","3","A">>
      [] c = "[" -> <<"%","5","B">>
      [] c = "]" -> <<"%","5","D">>

RECURSIVE encodeURIComponent(_)
encodeURIComponent(s) ==
    IF s = <<>> THEN <<>>
    ELSE (IF Head(s) \in UriUnreserved THEN <<Head(s)>> ELSE UriEscape(Head(s)))
            \o encodeURIComponent(Tail(s))

\* The string literals of the sources and of their tests
UTM_PREFIX == <<"u","t","m","_">>
utm_source == <<"u","t","m","_","s","o","u","r","c","e">>
utm_medium == <<"u","t","m","_","m","e","d","i","u","m">>
utm_campaign == <<"u","t","m","_","c","a","m","p","a","i","g","n">>
utm_term == <<"u","t","m","_","t","e","r","m">>
utm_content == <<"u","t","m","_","c","o","n","t","e","n","t">>
VALID_UTM_PARAMS == {utm_source, utm_medium, utm_campaign, utm_term, utm_content}

utm_Source == <<"u","t","m","_","S","o","u","r","c","e">>
UTM_SOURCE == <<"U","T","M","_","S","O","U","R","C","E">>
utm_invalid == <<"u","t","m","_","i","n","v","a","l","i","d">>
session == <<"s","e","s","s","i","o","n">>
invalid == <<"i","n","v","a","l","i","d">>

google == <<"g","o","o","g","l","e">>
google_ads == <<"g","o","o","g","l","e","-","a","d","s">>
facebook == <<"f","a","c","e","b","o","o","k">>
bing == <<"b","i","n","g">>
slash == <<"/">>
Lax == <<"L","a","x">>
Strict == <<"S","t","r","i","c","t">>
example_com == <<".","e","x","a","m","p","l","e",".","c","o","m">>
test == <<"t","e","s","t">>
first == <<"f","i","r","s","t">>
second == <<"s","e","c","o","n","d">>
value1 == <<"v","a","l","u","e","1">>
test_name == <<"_","_","t","e","s","t","_","_">>
one == <<"1">>

-----------------------------------------------------------------------------
(* Objects *)

EmptyObject == [k \in {} |-> Null]

\* { ...a, ...b }
Spread(a, b) ==
    [k \in DOMAIN a \cup DOMAIN b |-> IF k \in DOMAIN b THEN b[k] ELSE a[k]]

\* obj[k] for a string-valued key, undefined when obj has no key k
Prop(obj, k) == IF k \in DOMAIN obj THEN obj[k] ELSE Undefined

\* Map.prototype.set, and an assignment obj[k] = v
Put(obj, k, v) == [x \in DOMAIN obj \cup {k} |-> IF x = k THEN v ELSE obj[x]]

\* Map.prototype.delete
Delete(obj, k) == [x \in DOMAIN obj \ {k} |-> obj[x]]

-----------------------------------------------------------------------------
(* src/utils/cookie.ts *)

SecondsPerDay == 24 * 60 * 60

DEFAULT_OPTIONS == [days |-> 30, path |-> slash, secure |-> TRUE, sameSite |-> Lax]

\* Mutant: the secure flag is written whatever options.secure is
generateCookieString_alwaysSecure(name, value, options) ==
    LET expires == now + options.days * SecondsPerDay
    IN  << <<encodeURIComponent(name), encodeURIComponent(value)>>,
           <<"expires", expires>>,
           <<"path", Prop(options, "path")>> >>
        \o (IF "domain" \in DOMAIN options /\ options.domain \notin {<<>>, Undefined}
            THEN << <<"domain", options.domain>> >> ELSE <<>>)
        \o (IF "sameSite" \in DOMAIN options /\ options.sameSite \notin {<<>>, Undefined}
            THEN << <<"samesite", options.sameSite>> >> ELSE <<>>)
        \o << <<"secure">> >>

\* The serialized cookie: the sequence of its "; "-separated parts, each part the
\* pair of its two sides of "=", the bare flag a one-element part.  The expires
\* part carries the instant that toUTCString formats.  An option that is the
\* empty string or undefined is falsy.
generateCookieString(name, value, options) ==
    LET expires == now + options.days * SecondsPerDay
    IN  << <<encodeURIComponent(name), encodeURIComponent(value)>>,
           <<"expires", expires>>,
           <<"path", Prop(options, "path")>> >>
        \o (IF "domain" \in DOMAIN options /\ options.domain \notin {<<>>, Undefined}
            THEN << <<"domain", options.domain>> >> ELSE <<>>)
        \o (IF "sameSite" \in DOMAIN options /\ options.sameSite \notin {<<>>, Undefined}
            THEN << <<"samesite", options.sameSite>> >> ELSE <<>>)
        \o (IF "secure" \in DOMAIN options /\ options.secure
            THEN << <<"secure">> >> ELSE <<>>)

CookieName(cookieString) == cookieString[1][1]
CookieValue(cookieString) == cookieString[1][2]
CookieExpires(cookieString) == cookieString[2][2]

\* document.cookie = cookieString: the jar keeps the cookie under its name, and
\* drops the name when the cookie is already expired
AssignCookie(jar, cookieString) ==
    IF CookieExpires(cookieString) <= now
    THEN Delete(jar, CookieName(cookieString))
    ELSE Put(jar, CookieName(cookieString), cookieString)

\* The cookies the jar still holds at the instant now
LiveCookies(jar) == {n \in DOMAIN jar : CookieExpires(jar[n]) > now}

\* A world is the pair of stores a call reads and writes
World == [mem |-> memoryStorage, jar |-> documentCookie]

\* document.cookie = ... throws (a SecurityError in a sandboxed document)
AssignmentThrows == backend = "throws"

\* Mutant: an entry the store already holds is kept
setCookie_keepsExisting(w, name, value, options) ==
    LET opts == Spread(DEFAULT_OPTIONS, options)
        cookieString == generateCookieString(name, value, opts)
    IN  IF name \in DOMAIN w.mem THEN w
        ELSE [mem |-> Put(w.mem, name, [value |-> value, options |-> opts]),
              jar |-> AssignCookie(w.jar, cookieString)]

\* Mutant: the Map is replaced by one that holds the new entry alone
setCookie_replacesAll(w, name, value, options) ==
    LET opts == Spread(DEFAULT_OPTIONS, options)
        cookieString == generateCookieString(name, value, opts)
    IN  [mem |-> Put(EmptyObject, name, [value |-> value, options |-> opts]),
         jar |-> IF AssignmentThrows THEN w.jar ELSE AssignCookie(w.jar, cookieString)]

\* The world setCookie leaves; when the assignment to document.cookie throws,
\* the entry is in memoryStorage already and setCookie throws
setCookie(w, name, value, options) ==
    LET opts == Spread(DEFAULT_OPTIONS, options)
        cookieString == generateCookieString(name, value, opts)
    IN  [mem |-> Put(w.mem, name, [value |-> value, options |-> opts]),
         jar |-> IF AssignmentThrows THEN w.jar ELSE AssignCookie(w.jar, cookieString)]

getCookie(mem, name) == IF name \in DOMAIN mem THEN mem[name].value ELSE Null

\* Mutant: the other entries are removed as well
removeCookie_all(w, name, options) ==
    [mem |-> EmptyObject,
     jar |-> AssignCookie(w.jar,
                generateCookieString(name, <<>>, Put(DEFAULT_OPTIONS, "days", -1)))]

\* The world removeCookie leaves; it throws when the assignment does
removeCookie(w, name, options) ==
    LET opts == Spread(DEFAULT_OPTIONS, options)
    IN  [mem |-> Delete(w.mem, name),
         jar |-> IF AssignmentThrows THEN w.jar
                 ELSE AssignCookie(w.jar,
                        generateCookieString(name, <<>>, Put(opts, "days", -1)))]

getAllCookies(mem) == [n \in DOMAIN mem |-> mem[n].value]

\* A browser in which cookies are disabled ignores assignments to
\* document.cookie: what a call leaves behind when its writes to the jar are
\* discarded
Blocked(w, after, discard) == [mem |-> after.mem, jar |-> IF discard THEN w.jar ELSE after.jar]

\* The world areCookiesEnabled leaves and the boolean it returns; when
\* setCookie throws the catch block returns false and removeCookie is not
\* reached
areCookiesEnabled(w, discard) ==
    LET written == Blocked(w, setCookie(w, test_name, one, EmptyObject), discard)
        result == getCookie(written.mem, test_name) = one
        removed == Blocked(written, removeCookie(written, test_name, EmptyObject), discard)
    IN  IF AssignmentThrows
        THEN [mem |-> written.mem, jar |-> written.jar, threw |-> FALSE, ret |-> FALSE,
              errors |-> 0]
        ELSE [mem |-> removed.mem, jar |-> removed.jar, threw |-> FALSE, ret |-> result,
              errors |-> 0]

\* The code unit of a character, for the characters the names below are made of
CodePoint(c) ==
    CASE c = "\t" -> 9
      [] c = " " -> 32
      [] c = "!" -> 33
      [] c = "\"" -> 34
      [] c = "," -> 44
      [] c = "-" -> 45
      [] c = ";" -> 59
      [] c = "=" -> 61
      [] c = "@" -> 64
      [] c = "\\" -> 92
      [] c = "a" -> 97
      [] c = "~" -> 126

\* The character class of the pattern:
\* !  #-+  --:  <-[  ]-~
CookieNameClass == {33} \cup (35..43) \cup (45..58) \cup (60..91) \cup (93..126)

\* /^[...]+$/.test(name)
isValidCookieName(name) ==
    /\ Len(name) >= 1
    /\ \A i \in DOMAIN name : CodePoint(name[i]) \in CookieNameClass

\* JSON values: null is Null, true and false are <<"true">> and <<"false">>, a
\* number is <<"number", digits>>, a string <<"string", characters>>, an array
\* <<"array", elements>>, an object <<"object", members>> with each member the
\* pair of its key and its value.  The texts parsed below have no white space,
\* no escape sequence, and no sign, fraction or exponent in a number.

\* The result of parsing a value that starts at some index of a text: the
\* value and the index after it, or a failure
NoParse == [ok |-> FALSE, val |-> Null, next |-> 0]
Parsed(val, next) == [ok |-> TRUE, val |-> val, next |-> next]

ParseLiteral(text, i, word, val) ==
    IF i + Len(word) - 1 <= Len(text) /\ SubSeq(text, i, i + Len(word) - 1) = word
    THEN Parsed(val, i + Len(word))
    ELSE NoParse

\* The index after the digits that start at i
DigitsEnd(text, i) ==
    CHOOSE j \in i..(Len(text) + 1) :
        /\ \A k \in i..(j - 1) : text[k] \in Digits
        /\ j = Len(text) + 1 \/ text[j] \notin Digits

\* The index of the first double quote or backslash at or after i
StringEnd(text, i) ==
    CHOOSE j \in i..(Len(text) + 1) :
        /\ \A k \in i..(j - 1) : text[k] \notin {"\"", "\\"}
        /\ j = Len(text) + 1 \/ text[j] \in {"\"", "\\"}

\* A number may not start with a superfluous 0
ParseNumber(text, i) ==
    LET j == DigitsEnd(text, i)
    IN  IF j = i \/ (text[i] = "0" /\ j > i + 1) THEN NoParse
        ELSE Parsed(<<"number", SubSeq(text, i, j - 1)>>, j)

\* text[i] is the opening double quote
ParseString(text, i) ==
    LET j == StringEnd(text, i + 1)
    IN  IF j <= Len(text) /\ text[j] = "\""
        THEN Parsed(<<"string", SubSeq(text, i + 1, j - 1)>>, j + 1)
        ELSE NoParse

RECURSIVE ParseValue(_, _), ParseElements(_, _, _), ParseMembers(_, _, _)
ParseValue(text, i) ==
    IF i > Len(text) THEN NoParse
    ELSE CASE text[i] = "n" -> ParseLiteral(text, i, <<"n","u","l","l">>, Null)
           [] text[i] = "t" -> ParseLiteral(text, i, <<"t","r","u","e">>, <<"true">>)
           [] text[i] = "f" -> ParseLiteral(text, i, <<"f","a","l","s","e">>, <<"false">>)
           [] text[i] = "\"" -> ParseString(text, i)
           [] text[i] \in Digits -> ParseNumber(text, i)
           [] text[i] = "[" ->
                IF i < Len(text) /\ text[i + 1] = "]"
                THEN Parsed(<<"array", <<>> >>, i + 2)
                ELSE ParseElements(text, i + 1, <<>>)
           [] text[i] = "{" ->
                IF i < Len(text) /\ text[i + 1] = "}"
                THEN Parsed(<<"object", <<>> >>, i + 2)
                ELSE ParseMembers(text, i + 1, <<>>)
           [] OTHER -> NoParse

\* The elements of an array from index i on, after the elements done
ParseElements(text, i, done) ==
    LET v == ParseValue(text, i)
    IN  IF ~v.ok \/ v.next > Len(text) THEN NoParse
        ELSE IF text[v.next] = "]"
             THEN Parsed(<<"array", Append(done, v.val)>>, v.next + 1)
        ELSE IF text[v.next] = ","
             THEN ParseElements(text, v.next + 1, Append(done, v.val))
        ELSE NoParse

\* The members of an object from index i on, after the members done
ParseMembers(text, i, done) ==
    LET k == IF i <= Len(text) /\ text[i] = "\"" THEN ParseString(text, i) ELSE NoParse
        v == IF k.ok /\ k.next <= Len(text) /\ text[k.next] = ":"
             THEN ParseValue(text, k.next + 1)
             ELSE NoParse
    IN  IF ~v.ok \/ v.next > Len(text) THEN NoParse
        ELSE IF text[v.next] = "}"
             THEN Parsed(<<"object", Append(done, <<k.val[2], v.val>>)>>, v.next + 1)
        ELSE IF text[v.next] = ","
             THEN ParseMembers(text, v.next + 1, Append(done, <<k.val[2], v.val>>))
        ELSE NoParse

\* JSON.parse: the value of the whole text, or a SyntaxError
JSON_parse(text) ==
    LET r == ParseValue(text, 1)
    IN  IF r.ok /\ r.next = Len(text) + 1
        THEN [threw |-> FALSE, ret |-> r.val]
        ELSE [threw |-> TRUE, ret |-> Undefined]

RECURSIVE JSON_stringify(_), StringifyElements(_), StringifyMembers(_)
JSON_stringify(val) ==
    CASE val = Null -> <<"n","u","l","l">>
      [] val[1] = "true" -> <<"t","r","u","e">>
      [] val[1] = "false" -> <<"f","a","l","s","e">>
      [] val[1] = "number" -> val[2]
      [] val[1] = "string" -> <<"\"">> \o val[2] \o <<"\"">>
      [] val[1] = "array" -> <<"[">> \o StringifyElements(val[2]) \o <<"]">>
      [] val[1] = "object" -> <<"{">> \o StringifyMembers(val[2]) \o <<"}">>

StringifyElements(elements) ==
    IF Len(elements) = 0 THEN <<>>
    ELSE JSON_stringify(Head(elements))
            \o (IF Len(elements) > 1 THEN <<",">> ELSE <<>>)
            \o StringifyElements(Tail(elements))

StringifyMembers(members) ==
    IF Len(members) = 0 THEN <<>>
    ELSE <<"\"">> \o Head(members)[1] \o <<"\"", ":">> \o JSON_stringify(Head(members)[2])
            \o (IF Len(members) > 1 THEN <<",">> ELSE <<>>)
            \o StringifyMembers(Tail(members))

\* The outcome of getJSONCookie: the SyntaxError of JSON.parse is caught
getJSONCookie(mem, name) ==
    LET value == getCookie(mem, name)
    IN  IF value = Null THEN Returned(Null)
        ELSE IF JSON_parse(value).threw THEN Returned(Null)
        ELSE Returned(JSON_parse(value).ret)

\* The world setJSONCookie leaves
setJSONCookie(w, name, value, options) == setCookie(w, name, JSON_stringify(value), options)

-----------------------------------------------------------------------------
(* src/utm.ts *)

DEFAULT_CONFIG ==
    [attribution |-> "last", expirationDays |-> 30, path |-> slash,
     secure |-> TRUE, sameSite |-> Lax]

\* The attribution callbacks a caller may configure, by name:
\*   preferGoogle  (current, newValue) => newValue.includes("google") ? newValue : current
\*   alwaysBing    () => "bing"
\*   throws        () => { throw ... }
ApplyCallback(cb, currentValue, newValue) ==
    CASE cb = "preferGoogle" ->
            [threw |-> FALSE,
             ret |-> IF includes(newValue, google) THEN newValue ELSE currentValue]
      [] cb = "alwaysBing" -> [threw |-> FALSE, ret |-> bing]
      [] cb = "throws" -> [threw |-> TRUE, ret |-> Undefined]

\* Mutant: the whitelist test reduced to the prefix test
isValidUTMParam_prefixOnly(param) == startsWith(toLowerCase(param), UTM_PREFIX)

isValidUTMParam(param) == toLowerCase(param) \in VALID_UTM_PARAMS

\* Mutant: first-touch tests !currentValue, so an empty string counts as no value
shouldSaveUTM_emptyIsAbsent(mem, key, value) ==
    LET currentValue == getCookie(mem, key)
    IN  CASE currentConfig.attribution = "first" ->
                [save |-> currentValue = Null \/ currentValue = <<>>, errors |-> 0, invoked |-> 0]
          [] currentConfig.attribution = "last" ->
                [save |-> TRUE, errors |-> 0, invoked |-> 0]
          [] currentConfig.attribution = "dynamic" ->
                IF "attributionCallback" \notin DOMAIN currentConfig
                THEN [save |-> TRUE, errors |-> 0, invoked |-> 0]
                ELSE LET shouldSave ==
                            ApplyCallback(currentConfig.attributionCallback,
                                IF currentValue = Null THEN <<>> ELSE currentValue,
                                value)
                     IN  IF shouldSave.threw
                         THEN [save |-> FALSE, errors |-> 1, invoked |-> 1]
                         ELSE [save |-> shouldSave.ret = value, errors |-> 0, invoked |-> 1]
          [] OTHER -> [save |-> TRUE, errors |-> 0, invoked |-> 0]

\* Mutant: last-touch keeps a value already stored
shouldSaveUTM_lastKeeps(mem, key, value) ==
    LET currentValue == getCookie(mem, key)
    IN  CASE currentConfig.attribution = "first" ->
                [save |-> currentValue = Null, errors |-> 0, invoked |-> 0]
          [] currentConfig.attribution = "last" ->
                [save |-> currentValue = Null, errors |-> 0, invoked |-> 0]
          [] currentConfig.attribution = "dynamic" ->
                IF "attributionCallback" \notin DOMAIN currentConfig
                THEN [save |-> TRUE, errors |-> 0, invoked |-> 0]
                ELSE LET shouldSave ==
                            ApplyCallback(currentConfig.attributionCallback,
                                IF currentValue = Null THEN <<>> ELSE currentValue,
                                value)
                     IN  IF shouldSave.threw
                         THEN [save |-> FALSE, errors |-> 1, invoked |-> 1]
                         ELSE [save |-> shouldSave.ret = value, errors |-> 0, invoked |-> 1]
          [] OTHER -> [save |-> TRUE, errors |-> 0, invoked |-> 0]

\* Mutant: dynamic writes unless the callback returned the current value
shouldSaveUTM_unlessCurrent(mem, key, value) ==
    LET currentValue == getCookie(mem, key)
    IN  CASE currentConfig.attribution = "first" ->
                [save |-> currentValue = Null, errors |-> 0, invoked |-> 0]
          [] currentConfig.attribution = "last" ->
                [save |-> TRUE, errors |-> 0, invoked |-> 0]
          [] currentConfig.attribution = "dynamic" ->
                IF "attributionCallback" \notin DOMAIN currentConfig
                THEN [save |-> TRUE, errors |-> 0, invoked |-> 0]
                ELSE LET shouldSave ==
                            ApplyCallback(currentConfig.attributionCallback,
                                IF currentValue = Null THEN <<>> ELSE currentValue,
                                value)
                     IN  IF shouldSave.threw
                         THEN [save |-> FALSE, errors |-> 1, invoked |-> 1]
                         ELSE [save |-> shouldSave.ret # currentValue, errors |-> 0, invoked |-> 1]
          [] OTHER -> [save |-> TRUE, errors |-> 0, invoked |-> 0]

\* Mutant: a callback that throws lets the value be written
shouldSaveUTM_catchSaves(mem, key, value) ==
    LET currentValue == getCookie(mem, key)
    IN  CASE currentConfig.attribution = "first" ->
                [save |-> currentValue = Null, errors |-> 0, invoked |-> 0]
          [] currentConfig.attribution = "last" ->
                [save |-> TRUE, errors |-> 0, invoked |-> 0]
          [] currentConfig.attribution = "dynamic" ->
                IF "attributionCallback" \notin DOMAIN currentConfig
                THEN [save |-> TRUE, errors |-> 0, invoked |-> 0]
                ELSE LET shouldSave ==
                            ApplyCallback(currentConfig.attributionCallback,
                                IF currentValue = Null THEN <<>> ELSE currentValue,
                                value)
                     IN  IF shouldSave.threw
                         THEN [save |-> TRUE, errors |-> 1, invoked |-> 1]
                         ELSE [save |-> shouldSave.ret = value, errors |-> 0, invoked |-> 1]
          [] OTHER -> [save |-> TRUE, errors |-> 0, invoked |-> 0]

\* Mutant: "dynamic" without a callback keeps a value that is stored
shouldSaveUTM_noCallbackKeeps(mem, key, value) ==
    LET currentValue == getCookie(mem, key)
    IN  CASE currentConfig.attribution = "first" ->
                [save |-> currentValue = Null, errors |-> 0, invoked |-> 0]
          [] currentConfig.attribution = "last" ->
                [save |-> TRUE, errors |-> 0, invoked |-> 0]
          [] currentConfig.attribution = "dynamic" ->
                IF "attributionCallback" \notin DOMAIN currentConfig
                THEN [save |-> currentValue = Null, errors |-> 0, invoked |-> 0]
                ELSE LET shouldSave ==
                            ApplyCallback(currentConfig.attributionCallback,
                                IF currentValue = Null THEN <<>> ELSE currentValue,
                                value)
                     IN  IF shouldSave.threw
                         THEN [save |-> FALSE, errors |-> 1, invoked |-> 1]
                         ELSE [save |-> shouldSave.ret = value, errors |-> 0, invoked |-> 1]
          [] OTHER -> [save |-> TRUE, errors |-> 0, invoked |-> 0]

\* Mutant: first-touch writes again a value equal to the stored one
shouldSaveUTM_firstRefreshes(mem, key, value) ==
    LET currentValue == getCookie(mem, key)
    IN  CASE currentConfig.attribution = "first" ->
                [save |-> currentValue = Null \/ currentValue = value, errors |-> 0,
                 invoked |-> 0]
          [] currentConfig.attribution = "last" ->
                [save |-> TRUE, errors |-> 0, invoked |-> 0]
          [] currentConfig.attribution = "dynamic" ->
                IF "attributionCallback" \notin DOMAIN currentConfig
                THEN [save |-> TRUE, errors |-> 0, invoked |-> 0]
                ELSE LET shouldSave ==
                            ApplyCallback(currentConfig.attributionCallback,
                                IF currentValue = Null THEN <<>> ELSE currentValue,
                                value)
                     IN  IF shouldSave.threw
                         THEN [save |-> FALSE, errors |-> 1, invoked |-> 1]
                         ELSE [save |-> shouldSave.ret = value, errors |-> 0, invoked |-> 1]
          [] OTHER -> [save |-> TRUE, errors |-> 0, invoked |-> 0]

\* Mutant: a callback that is configured is consulted under every strategy
shouldSaveUTM_alwaysAsks(mem, key, value) ==
    LET currentValue == getCookie(mem, key)
        shouldSave ==
            ApplyCallback(currentConfig.attributionCallback,
                IF currentValue = Null THEN <<>> ELSE currentValue,
                value)
    IN  IF "attributionCallback" \in DOMAIN currentConfig
        THEN IF shouldSave.threw
             THEN [save |-> FALSE, errors |-> 1, invoked |-> 1]
             ELSE [save |-> shouldSave.ret = value, errors |-> 0, invoked |-> 1]
        ELSE [save |-> currentConfig.attribution # "first" \/ currentValue = Null,
              errors |-> 0, invoked |-> 0]

\* The decision, the number of console.error calls made on the way, and the
\* number of times the attribution callback was invoked
shouldSaveUTM(mem, key, value) ==
    LET currentValue == getCookie(mem, key)
    IN  CASE currentConfig.attribution = "first" ->
                [save |-> currentValue = Null, errors |-> 0, invoked |-> 0]
          [] currentConfig.attribution = "last" ->
                [save |-> TRUE, errors |-> 0, invoked |-> 0]
          [] currentConfig.attribution = "dynamic" ->
                IF "attributionCallback" \notin DOMAIN currentConfig
                THEN [save |-> TRUE, errors |-> 0, invoked |-> 0]
                ELSE LET shouldSave ==
                            ApplyCallback(currentConfig.attributionCallback,
                                IF currentValue = Null THEN <<>> ELSE currentValue,
                                value)
                     IN  IF shouldSave.threw
                         THEN [save |-> FALSE, errors |-> 1, invoked |-> 1]
                         ELSE [save |-> shouldSave.ret = value, errors |-> 0, invoked |-> 1]
          [] OTHER -> [save |-> TRUE, errors |-> 0, invoked |-> 0]

\* The outcome of a call: the world it leaves, whether it threw, what it
\* returned, and how many times it called console.error
Outcome(w, threw, ret, errors) ==
    [mem |-> w.mem, jar |-> w.jar, threw |-> threw, ret |-> ret, errors |-> errors]

\* An outcome together with the number of times the call invoked the
\* attribution callback
Invoking(outcome, n) ==
    [f \in DOMAIN outcome \cup {"invoked"} |-> IF f = "invoked" THEN n ELSE outcome[f]]

\* The invocations an outcome reports; a call that ends before shouldSaveUTM
\* reports none
Invoked(outcome) == IF "invoked" \in DOMAIN outcome THEN outcome.invoked ELSE 0

saveUTM(w, key, value) ==
    IF ~startsWith(key, UTM_PREFIX) THEN Outcome(w, TRUE, Undefined, 0)
    ELSE IF ~isValidUTMParam(key) THEN Outcome(w, TRUE, Undefined, 0)
    ELSE LET decision == shouldSaveUTM(w.mem, key, value)
             from == [days |-> "expirationDays", domain |-> "domain", path |-> "path",
                      secure |-> "secure", sameSite |-> "sameSite"]
             cookieOptions ==
                [k \in {x \in DOMAIN from : from[x] \in DOMAIN currentConfig}
                    |-> currentConfig[from[k]]]
         IN  IF decision.save
             THEN Invoking(Outcome(setCookie(w, key, value, cookieOptions),
                                   AssignmentThrows, Undefined, decision.errors),
                           decision.invoked)
             ELSE Invoking(Outcome(w, FALSE, Undefined, decision.errors),
                           decision.invoked)

getUTM(w, key) ==
    IF ~startsWith(key, UTM_PREFIX) THEN Outcome(w, TRUE, Undefined, 0)
    ELSE IF ~isValidUTMParam(key) THEN Outcome(w, TRUE, Undefined, 0)
    ELSE Outcome(w, FALSE, getCookie(w.mem, key), 0)

getUTMs(mem) ==
    LET allCookies == getAllCookies(mem)
    IN  [key \in {k \in DOMAIN allCookies :
                    startsWith(k, UTM_PREFIX) /\ isValidUTMParam(k)}
            |-> allCookies[key]]

\* Mutant: no try/catch around saveUTM, so the first throw ends the batch
RECURSIVE saveUTMsFrom_abort(_, _, _)
saveUTMsFrom_abort(w, params, errors) ==
    IF params = <<>> THEN Outcome(w, FALSE, Undefined, errors)
    ELSE LET r == saveUTM(w, Head(params)[1], Head(params)[2])
         IN  IF r.threw THEN Outcome(w, TRUE, Undefined, errors)
             ELSE saveUTMsFrom_abort([mem |-> r.mem, jar |-> r.jar], Tail(params),
                                     errors + r.errors)

\* params is Object.entries(params): the pairs <<key, value>> in insertion order.
\* A throw of saveUTM is caught and reported with console.error.
RECURSIVE saveUTMsFrom(_, _, _)
saveUTMsFrom(w, params, errors) ==
    IF params = <<>> THEN Outcome(w, FALSE, Undefined, errors)
    ELSE LET r == saveUTM(w, Head(params)[1], Head(params)[2])
             rest == saveUTMsFrom([mem |-> r.mem, jar |-> r.jar], Tail(params),
                                  errors + r.errors + (IF r.threw THEN 1 ELSE 0))
         IN  Invoking(rest, Invoked(r) + Invoked(rest))

saveUTMs(w, params) == saveUTMsFrom(w, params, 0)

\* Mutant: the new fields merged into the policy in force
configureUTM_merge(config) == Spread(currentConfig, config)

configureUTM(config) == Spread(DEFAULT_CONFIG, config)

-----------------------------------------------------------------------------
(* src/index.ts, the entry point the package publishes.  Its functions carry *)
(* the prefix index_ where utm.ts has a function of the same name.           *)

\* domain: undefined is an absent key
defaultConfig == [attribution |-> "last", expirationDays |-> 30]

\* TRUE when validateUTMKey throws
validateUTMKey(utm_key) ==
    \/ ~startsWith(utm_key, UTM_PREFIX)
    \/ toLowerCase(utm_key) \notin VALID_UTM_PARAMS

\* shouldSaveUTM when currentConfig is config
index_shouldSaveUTM_under(config, currentValue, newValue) ==
    CASE config.attribution = "first" -> [save |-> currentValue = Null, errors |-> 0, invoked |-> 0]
      [] config.attribution = "last" -> [save |-> TRUE, errors |-> 0, invoked |-> 0]
      [] config.attribution = "dynamic" ->
            IF "attributionCallback" \notin DOMAIN config
            THEN [save |-> TRUE, errors |-> 0, invoked |-> 0]
            ELSE LET answer ==
                        ApplyCallback(config.attributionCallback,
                            IF currentValue = Null THEN <<>> ELSE currentValue,
                            newValue)
                 IN  IF answer.threw
                     THEN [save |-> FALSE, errors |-> 1, invoked |-> 1]
                     ELSE [save |-> answer.ret = newValue, errors |-> 0, invoked |-> 1]
      [] OTHER -> [save |-> TRUE, errors |-> 0, invoked |-> 0]

index_shouldSaveUTM(currentValue, newValue) ==
    index_shouldSaveUTM_under(indexConfig, currentValue, newValue)

\* saveUTMs when currentConfig is config.  days = 0 stands for a days argument
\* that is left out (or 0): days || ...
index_saveUTMs_under(config, w, utm_key, utm_value, days) ==
    IF validateUTMKey(utm_key) THEN Outcome(w, TRUE, Undefined, 0)
    ELSE LET currentValue == getCookie(w.mem, utm_key)
             decision == index_shouldSaveUTM_under(config, currentValue, utm_value)
             cookieOptions ==
                Spread([days |-> IF days # 0 THEN days ELSE config.expirationDays,
                        secure |-> TRUE, sameSite |-> Lax],
                       IF "domain" \in DOMAIN config
                       THEN [domain |-> config.domain] ELSE EmptyObject)
         IN  IF decision.save
             THEN Invoking(Outcome(setCookie(w, utm_key, utm_value, cookieOptions),
                                   AssignmentThrows, Undefined, decision.errors),
                           decision.invoked)
             ELSE Invoking(Outcome(w, FALSE, Undefined, decision.errors),
                           decision.invoked)

index_saveUTMs(w, utm_key, utm_value, days) ==
    index_saveUTMs_under(indexConfig, w, utm_key, utm_value, days)

index_getUTMs(mem) ==
    LET allCookies == getAllCookies(mem)
    IN  [key \in {k \in DOMAIN allCookies : startsWith(k, UTM_PREFIX)} |-> allCookies[key]]

\* value || undefined
index_getUTM(w, utm_key) ==
    IF validateUTMKey(utm_key) THEN Outcome(w, TRUE, Undefined, 0)
    ELSE LET value == getCookie(w.mem, utm_key)
         IN  Outcome(w, FALSE, IF value = Null \/ value = <<>> THEN Undefined ELSE value, 0)

configureAttribution(strategy, config) ==
    Spread(Spread(defaultConfig, config), [attribution |-> strategy])

-----------------------------------------------------------------------------
(* src/standalone.ts: the object UTMManager of the script-tag build.  Its    *)
(* methods carry the prefix UTMManager_.                                     *)

\* options.attribution || "last"
UTMManager_configure(options) ==
    configureAttribution(IF "attribution" \in DOMAIN options
                         THEN options.attribution ELSE "last",
                         options)

\* days = 0 stands for a days argument that is left out (or 0): days || 30
UTMManager_saveUTM(w, key, value, days) ==
    index_saveUTMs(w, key, value, IF days # 0 THEN days ELSE 30)

UTMManager_getUTM(w, key) == index_getUTM(w, key)

UTMManager_getAllUTMs(mem) == index_getUTMs(mem)

\* An outcome together with the details of the events the call dispatched
Dispatching(outcome, events) ==
    [f \in DOMAIN outcome \cup {"events"} |->
        IF f = "events" THEN events ELSE outcome[f]]

\* urlParams.forEach over the entries of the query string that are left; an
\* error thrown by saveUTM leaves forEach and autoCapture
RECURSIVE UTMManager_autoCaptureFrom(_, _, _, _)
UTMManager_autoCaptureFrom(w, urlParams, captured, errors) ==
    IF urlParams = <<>>
    THEN IF captured
         THEN Dispatching(Outcome(w, FALSE, TRUE, errors),
                          << UTMManager_getAllUTMs(w.mem) >>)
         ELSE Dispatching(Outcome(w, FALSE, FALSE, errors), <<>>)
    ELSE LET key == Head(urlParams)[1]
             value == Head(urlParams)[2]
         IN  IF startsWith(key, UTM_PREFIX)
             THEN LET r == UTMManager_saveUTM(w, key, value, 0)
                      rest == UTMManager_autoCaptureFrom(r, Tail(urlParams), TRUE,
                                                         errors + r.errors)
                  IN  IF r.threw
                      THEN Invoking(Dispatching(Outcome(r, TRUE, Undefined,
                                                        errors + r.errors), <<>>),
                                    Invoked(r))
                      ELSE Invoking(rest, Invoked(r) + Invoked(rest))
             ELSE UTMManager_autoCaptureFrom(w, Tail(urlParams), captured, errors)

\* urlParams: the entries of window.location.search, in order
UTMManager_autoCapture(w, urlParams) ==
    UTMManager_autoCaptureFrom(w, urlParams, FALSE, 0)

-----------------------------------------------------------------------------
(* src/frameworks/react/index.tsx: the hook useUTMs of a mounted component.  *)
(* Its functions carry the prefix hook_.  The variable hook holds the state  *)
(* params of the component and whether its config names an onUpdate.         *)

\* The component before its effect has run: useState({})
Unmounted == [mounted |-> FALSE, params |-> EmptyObject, onUpdate |-> FALSE]

\* An outcome together with the params state the call leaves and the arguments
\* of the onUpdate calls it made
Rendering(outcome, params, updates) ==
    [f \in DOMAIN outcome \cup {"params", "updates"} |->
        CASE f = "params" -> params
          [] f = "updates" -> updates
          [] OTHER -> outcome[f]]

\* try { ... } catch (error) { console.error(...) } around a call with outcome r
Caught(r) ==
    [r EXCEPT !.threw = FALSE, !.errors = @ + (IF r.threw THEN 1 ELSE 0)]

\* The object whose Object.entries are entries; a later entry of a key wins
FromEntries(entries) ==
    [k \in {entries[i][1] : i \in DOMAIN entries} |->
        entries[CHOOSE i \in DOMAIN entries :
                    /\ entries[i][1] = k
                    /\ \A j \in DOMAIN entries : entries[j][1] = k => j <= i][2]]

\* utmParams[key] = value on the entries of an object: a key it has keeps its
\* place, a new key goes last
AssignEntry(entries, key, value) ==
    IF \E i \in DOMAIN entries : entries[i][1] = key
    THEN [i \in DOMAIN entries |->
            IF entries[i][1] = key THEN <<key, value>> ELSE entries[i]]
    ELSE Append(entries, <<key, value>>)

\* searchParams.forEach: the entries of the object utmParams
RECURSIVE CollectUTMs(_, _)
CollectUTMs(searchParams, utmParams) ==
    IF searchParams = <<>> THEN utmParams
    ELSE CollectUTMs(Tail(searchParams),
                     IF startsWith(Head(searchParams)[1], UTM_PREFIX)
                     THEN AssignEntry(utmParams, Head(searchParams)[1],
                                      Head(searchParams)[2])
                     ELSE utmParams)

\* Mutant: setParams is called whether or not saveUTMs threw
hook_setParam_always(policy, w, h, key, value, days) ==
    LET r == index_saveUTMs_under(policy, w, key, value, days)
        updated == Put(h.params, key, value)
    IN  Rendering(Caught(r), updated, IF h.onUpdate THEN <<updated>> ELSE <<>>)

\* policy is currentConfig of index.ts at the time of the call, h the state of
\* the hook.  saveUTMs throws before setParams is reached.
hook_setParam(policy, w, h, key, value, days) ==
    LET r == index_saveUTMs_under(policy, w, key, value, days)
        updated == Put(h.params, key, value)
    IN  IF r.threw
        THEN Rendering(Caught(r), h.params, <<>>)
        ELSE Rendering(r, updated, IF h.onUpdate THEN <<updated>> ELSE <<>>)

\* Object.entries(newParams).forEach with its try/catch
RECURSIVE hook_saveEach(_, _, _, _)
hook_saveEach(policy, w, newParams, days) ==
    IF newParams = <<>> THEN Outcome(w, FALSE, Undefined, 0)
    ELSE LET r == Caught(index_saveUTMs_under(policy, w, Head(newParams)[1],
                                              Head(newParams)[2], days))
             rest == hook_saveEach(policy, r, Tail(newParams), days)
         IN  Invoking(Outcome(rest, FALSE, Undefined, r.errors + rest.errors),
                      Invoked(r) + Invoked(rest))

\* newParams: Object.entries of the Record<string,string>
hook_setMultipleParams(policy, w, h, newParams, days) ==
    LET updated == Spread(h.params, FromEntries(newParams))
    IN  Rendering(hook_saveEach(policy, w, newParams, days), updated,
                  IF h.onUpdate THEN <<updated>> ELSE <<>>)

\* searchParams: the entries of window.location.search, in order
hook_captureUTMsFromURL(policy, w, h, searchParams) ==
    LET utmParams == CollectUTMs(searchParams, <<>>)
    IN  IF Len(utmParams) > 0
        THEN hook_setMultipleParams(policy, w, h, utmParams, 0)
        ELSE Rendering(Outcome(w, FALSE, Undefined, 0), h.params, <<>>)

hook_getParam(w, key) == index_getUTM(w, key)

\* The policy the effect of useUTMs leaves: given says whether useUTMs was
\* called with a config
hook_policy(given, config) ==
    IF given
    THEN configureAttribution(IF "attribution" \in DOMAIN config
                              THEN config.attribution ELSE defaultConfig.attribution,
                              config)
    ELSE indexConfig

\* The effect of useUTMs after the first render
hook_effect(w, given, config, searchParams) ==
    LET policy == hook_policy(given, config)
        storedParams == index_getUTMs(w.mem)
        h == [mounted |-> TRUE, params |-> storedParams,
              onUpdate |-> given /\ "onUpdate" \in DOMAIN config]
    IN  IF given /\ "autoCapture" \in DOMAIN config /\ config.autoCapture
        THEN hook_captureUTMsFromURL(policy, w, h, searchParams)
        ELSE Rendering(Outcome(w, FALSE, Undefined, 0), storedParams, <<>>)

-----------------------------------------------------------------------------
(* The calls a page makes, one action per call *)

Init ==
    /\ memoryStorage = EmptyObject
    /\ documentCookie = EmptyObject
    /\ currentConfig = DEFAULT_CONFIG
    /\ indexConfig = defaultConfig
    /\ now = 0
    /\ hook = Unmounted
    /\ backend = "stores"
    /\ tabStorage = EmptyObject
    /\ call = Called("load", <<>>, Returned(Undefined))

\* Mutant: the entries already stored take the lifetime of the new policy
Call_configureUTM_retroactive(config) ==
    /\ currentConfig' = configureUTM(config)
    /\ memoryStorage' =
            [n \in DOMAIN memoryStorage |->
                [memoryStorage[n] EXCEPT !.options.days = currentConfig'.expirationDays]]
    /\ call' = Called("configureUTM", config, Returned(Undefined))
    /\ UNCHANGED <<documentCookie, indexConfig, now, hook, backend, tabStorage>>

Call_configureUTM(config) ==
    /\ currentConfig' = configureUTM(config)
    /\ call' = Called("configureUTM", config, Returned(Undefined))
    /\ UNCHANGED <<memoryStorage, documentCookie, indexConfig, now,
                   hook, backend, tabStorage>>

Call_saveUTM(key, value) ==
    LET r == saveUTM(World, key, value)
    IN  /\ memoryStorage' = r.mem
        /\ documentCookie' = r.jar
        /\ call' = Called("saveUTM", <<key, value>>, r)
        /\ UNCHANGED <<currentConfig, indexConfig, now, hook, backend, tabStorage>>

Call_getUTM(key) ==
    LET r == getUTM(World, key)
    IN  /\ call' = Called("getUTM", key, r)
        /\ UNCHANGED <<memoryStorage, documentCookie, currentConfig, indexConfig, now,
                       hook, backend, tabStorage>>

Call_getUTMs ==
    /\ call' = Called("getUTMs", <<>>, Returned(getUTMs(memoryStorage)))
    /\ UNCHANGED <<memoryStorage, documentCookie, currentConfig, indexConfig, now,
                   hook, backend, tabStorage>>

Call_saveUTMs(params) ==
    LET r == saveUTMs(World, params)
    IN  /\ memoryStorage' = r.mem
        /\ documentCookie' = r.jar
        /\ call' = Called("saveUTMs", params, r)
        /\ UNCHANGED <<currentConfig, indexConfig, now, hook, backend, tabStorage>>

\* Another part of the page writes a cookie of its own through the store
Call_setCookie(name, value, options) ==
    LET w == setCookie(World, name, value, options)
    IN  /\ memoryStorage' = w.mem
        /\ documentCookie' = w.jar
        /\ call' = Called("setCookie", <<name, value>>,
                          [threw |-> AssignmentThrows, ret |-> Undefined, errors |-> 0])
        /\ UNCHANGED <<currentConfig, indexConfig, now, hook, backend, tabStorage>>

Call_getCookie(name) ==
    /\ call' = Called("getCookie", name, Returned(getCookie(memoryStorage, name)))
    /\ UNCHANGED <<memoryStorage, documentCookie, currentConfig, indexConfig, now,
                   hook, backend, tabStorage>>

Call_removeCookie(name, options) ==
    LET w == removeCookie(World, name, options)
    IN  /\ memoryStorage' = w.mem
        /\ documentCookie' = w.jar
        /\ call' = Called("removeCookie", name,
                          [threw |-> AssignmentThrows, ret |-> Undefined, errors |-> 0])
        /\ UNCHANGED <<currentConfig, indexConfig, now, hook, backend, tabStorage>>

Call_getAllCookies ==
    /\ call' = Called("getAllCookies", <<>>, Returned(getAllCookies(memoryStorage)))
    /\ UNCHANGED <<memoryStorage, documentCookie, currentConfig, indexConfig, now, hook,
                   backend, tabStorage>>

Call_isValidCookieName(name) ==
    /\ call' = Called("isValidCookieName", name, Returned(isValidCookieName(name)))
    /\ UNCHANGED <<memoryStorage, documentCookie, currentConfig, indexConfig, now, hook,
                   backend, tabStorage>>

Call_getJSONCookie(name) ==
    /\ call' = Called("getJSONCookie", name, getJSONCookie(memoryStorage, name))
    /\ UNCHANGED <<memoryStorage, documentCookie, currentConfig, indexConfig, now, hook,
                   backend, tabStorage>>

Call_setJSONCookie(name, value, options) ==
    LET w == setJSONCookie(World, name, value, options)
    IN  /\ memoryStorage' = w.mem
        /\ documentCookie' = w.jar
        /\ call' = Called("setJSONCookie", <<name, value>>,
                          [threw |-> AssignmentThrows, ret |-> Undefined, errors |-> 0])
        /\ UNCHANGED <<currentConfig, indexConfig, now, hook, backend, tabStorage>>

\* discard: the browser ignores the writes of this call to document.cookie
Call_areCookiesEnabled(discard) ==
    LET r == areCookiesEnabled(World, discard)
    IN  /\ memoryStorage' = r.mem
        /\ documentCookie' = r.jar
        /\ call' = Called("areCookiesEnabled", discard, r)
        /\ UNCHANGED <<currentConfig, indexConfig, now, hook, backend, tabStorage>>

Call_configureAttribution(strategy, config) ==
    /\ indexConfig' = configureAttribution(strategy, config)
    /\ call' = Called("configureAttribution", <<strategy, config>>, Returned(Undefined))
    /\ UNCHANGED <<memoryStorage, documentCookie, currentConfig, now,
                   hook, backend, tabStorage>>

Call_index_saveUTMs(utm_key, utm_value, days) ==
    LET r == index_saveUTMs(World, utm_key, utm_value, days)
    IN  /\ memoryStorage' = r.mem
        /\ documentCookie' = r.jar
        /\ call' = Called("index.saveUTMs", <<utm_key, utm_value, days>>, r)
        /\ UNCHANGED <<currentConfig, indexConfig, now, hook, backend, tabStorage>>

Call_index_getUTM(utm_key) ==
    LET r == index_getUTM(World, utm_key)
    IN  /\ call' = Called("index.getUTM", utm_key, r)
        /\ UNCHANGED <<memoryStorage, documentCookie, currentConfig, indexConfig, now,
                       hook, backend, tabStorage>>

Call_index_getUTMs ==
    /\ call' = Called("index.getUTMs", <<>>, Returned(index_getUTMs(memoryStorage)))
    /\ UNCHANGED <<memoryStorage, documentCookie, currentConfig, indexConfig, now,
                   hook, backend, tabStorage>>

Call_UTMManager_configure(options) ==
    /\ indexConfig' = UTMManager_configure(options)
    /\ call' = Called("UTMManager.configure", options, Returned(Undefined))
    /\ UNCHANGED <<memoryStorage, documentCookie, currentConfig, now,
                   hook, backend, tabStorage>>

Call_UTMManager_saveUTM(key, value, days) ==
    LET r == UTMManager_saveUTM(World, key, value, days)
    IN  /\ memoryStorage' = r.mem
        /\ documentCookie' = r.jar
        /\ call' = Called("UTMManager.saveUTM", <<key, value, days>>, r)
        /\ UNCHANGED <<currentConfig, indexConfig, now, hook, backend, tabStorage>>

Call_UTMManager_getUTM(key) ==
    LET r == UTMManager_getUTM(World, key)
    IN  /\ call' = Called("UTMManager.getUTM", key, r)
        /\ UNCHANGED <<memoryStorage, documentCookie, currentConfig, indexConfig, now,
                       hook, backend, tabStorage>>

Call_UTMManager_getAllUTMs ==
    /\ call' = Called("UTMManager.getAllUTMs", <<>>,
                      Returned(UTMManager_getAllUTMs(memoryStorage)))
    /\ UNCHANGED <<memoryStorage, documentCookie, currentConfig, indexConfig, now,
                   hook, backend, tabStorage>>

Call_UTMManager_autoCapture(urlParams) ==
    LET r == UTMManager_autoCapture(World, urlParams)
    IN  /\ memoryStorage' = r.mem
        /\ documentCookie' = r.jar
        /\ call' = Called("UTMManager.autoCapture", urlParams, r)
        /\ UNCHANGED <<currentConfig, indexConfig, now, hook, backend, tabStorage>>

\* The component is rendered for the first time and its effect runs
Call_useUTMs(given, config, searchParams) ==
    LET r == hook_effect(World, given, config, searchParams)
    IN  /\ ~hook.mounted
        /\ memoryStorage' = r.mem
        /\ documentCookie' = r.jar
        /\ indexConfig' = hook_policy(given, config)
        /\ hook' = [mounted |-> TRUE, params |-> r.params,
                    onUpdate |-> given /\ "onUpdate" \in DOMAIN config]
        /\ call' = Called("useUTMs", <<given, config, searchParams>>, r)
        /\ UNCHANGED <<currentConfig, now, backend, tabStorage>>

Call_hook_setParam(key, value, days) ==
    LET r == hook_setParam(indexConfig, World, hook, key, value, days)
    IN  /\ hook.mounted
        /\ memoryStorage' = r.mem
        /\ documentCookie' = r.jar
        /\ hook' = [hook EXCEPT !.params = r.params]
        /\ call' = Called("hook.setParam", <<key, value, days>>, r)
        /\ UNCHANGED <<currentConfig, indexConfig, now, backend, tabStorage>>

Call_hook_setParams(newParams, days) ==
    LET r == hook_setMultipleParams(indexConfig, World, hook, newParams, days)
    IN  /\ hook.mounted
        /\ memoryStorage' = r.mem
        /\ documentCookie' = r.jar
        /\ hook' = [hook EXCEPT !.params = r.params]
        /\ call' = Called("hook.setParams", <<newParams, days>>, r)
        /\ UNCHANGED <<currentConfig, indexConfig, now, backend, tabStorage>>

Call_hook_captureFromURL(searchParams) ==
    LET r == hook_captureUTMsFromURL(indexConfig, World, hook, searchParams)
    IN  /\ hook.mounted
        /\ memoryStorage' = r.mem
        /\ documentCookie' = r.jar
        /\ hook' = [hook EXCEPT !.params = r.params]
        /\ call' = Called("hook.captureFromURL", searchParams, r)
        /\ UNCHANGED <<currentConfig, indexConfig, now, backend, tabStorage>>

Call_hook_getParam(key) ==
    LET r == hook_getParam(World, key)
    IN  /\ hook.mounted
        /\ call' = Called("hook.getParam", key, r)
        /\ UNCHANGED <<memoryStorage, documentCookie, currentConfig, indexConfig, now,
                       hook, backend, tabStorage>>

Call_hook_configure(strategy, configOptions) ==
    /\ hook.mounted
    /\ indexConfig' = configureAttribution(strategy, configOptions)
    /\ call' = Called("hook.configure", <<strategy, configOptions>>, Returned(Undefined))
    /\ UNCHANGED <<memoryStorage, documentCookie, currentConfig, now, hook, backend,
                   tabStorage>>

\* The stores a call made in the second tab reads and writes: the Map of that
\* tab's copy of the module, and the jar both tabs share
TabWorld == [mem |-> tabStorage, jar |-> documentCookie]

\* setCookie called in the second tab
Tab_setCookie(name, value, options) ==
    LET w == setCookie(TabWorld, name, value, options)
    IN  /\ tabStorage' = w.mem
        /\ documentCookie' = w.jar
        /\ call' = Called("tab.setCookie", <<name, value>>,
                          [threw |-> AssignmentThrows, ret |-> Undefined, errors |-> 0])
        /\ UNCHANGED <<memoryStorage, currentConfig, indexConfig, now, hook, backend>>

\* getCookie called in the second tab
Tab_getCookie(name) ==
    /\ call' = Called("tab.getCookie", name, Returned(getCookie(tabStorage, name)))
    /\ UNCHANGED <<memoryStorage, documentCookie, currentConfig, indexConfig, now, hook,
                   backend, tabStorage>>

\* The setup of the test suites: each cookie that document.cookie lists is
\* assigned again with an expiry date in the past, which makes the browser
\* drop it
Test_beforeEach ==
    /\ documentCookie' =
            [n \in DOMAIN documentCookie \ LiveCookies(documentCookie) |-> documentCookie[n]]
    /\ call' = Called("beforeEach", <<>>, Returned(Undefined))
    /\ UNCHANGED <<memoryStorage, currentConfig, indexConfig, now, hook, backend,
                   tabStorage>>

\* The document starts or stops to refuse assignments to document.cookie
BackendBecomes(b) ==
    /\ b # backend
    /\ backend' = b
    /\ call' = Called("backend", b, Returned(Undefined))
    /\ UNCHANGED <<memoryStorage, documentCookie, currentConfig, indexConfig, now, hook,
                   tabStorage>>

\* A new page load: the modules are evaluated again, the browser keeps its jar
Restart ==
    /\ memoryStorage' = EmptyObject
    /\ currentConfig' = DEFAULT_CONFIG
    /\ indexConfig' = defaultConfig
    /\ hook' = Unmounted
    /\ call' = Called("load", <<>>, Returned(Undefined))
    /\ UNCHANGED <<documentCookie, now, backend, tabStorage>>

\* Time passes until the instant t
Tick(t) ==
    /\ t > now
    /\ now' = t
    /\ call' = Called("wait", <<>>, Returned(Undefined))
    /\ UNCHANGED <<memoryStorage, documentCookie, currentConfig, indexConfig,
                   hook, backend, tabStorage>>

-----------------------------------------------------------------------------
(* The inputs of the calls *)

Values == {<<>>, facebook, google_ads, bing}
Callbacks == {"preferGoogle", "alwaysBing", "throws"}
Strategies == {"first", "last", "dynamic"}

\* The objects that give each key of a set of keys one of its values, or leave
\* it out: choices maps a key to the set of values it may take
RECURSIVE Partial(_, _)
Partial(choices, keys) ==
    IF keys = {} THEN {EmptyObject}
    ELSE LET k == CHOOSE x \in keys : TRUE
             rest == Partial(choices, keys \ {k})
         IN  rest \cup {Put(o, k, v) : o \in rest, v \in choices[k]}

\* Partial<UTMConfig> objects that choose the strategy and its callback
StrategyConfigs ==
    Partial([attribution |-> Strategies, attributionCallback |-> Callbacks],
            {"attribution", "attributionCallback"})

-----------------------------------------------------------------------------
(* Spec: the engine of utm.ts under every strategy, on two whitelisted keys  *)
(* and two keys outside the whitelist                                        *)

Keys == {utm_source, utm_medium, utm_invalid, invalid}

Next ==
    \/ \E config \in StrategyConfigs : Call_configureUTM(config)
    \/ \E key \in Keys, value \in Values : Call_saveUTM(key, value)
    \/ \E key \in Keys : Call_getUTM(key)
    \/ Call_getUTMs

Spec == Init /\ [][Next]_vars

-----------------------------------------------------------------------------
(* Claims *)

\* The key of the last saveUTM or getUTM call
CallKey(c) == IF c.op = "saveUTM" THEN c.arg[1] ELSE c.arg

\* C1: under first-touch, saveUTM(k, v) on a whitelisted key never throws; it
\* stores v when getCookie(k) is null, and otherwise (the empty string being a
\* value) leaves both stores as they were.
C1_FirstTouch ==
    [][ (/\ call'.op = "saveUTM"
         /\ currentConfig.attribution = "first"
         /\ call'.arg[1] \in VALID_UTM_PARAMS)
        => LET k == call'.arg[1]
               v == call'.arg[2]
           IN  /\ ~call'.threw
               /\ IF getCookie(memoryStorage, k) = Null
                  THEN getCookie(memoryStorage', k) = v
                  ELSE /\ getCookie(memoryStorage', k) = getCookie(memoryStorage, k)
                       /\ memoryStorage' = memoryStorage
                       /\ documentCookie' = documentCookie ]_vars

\* The second save of a key whose first-touch value is the empty string
C1_Witness ==
    /\ call.op = "saveUTM"
    /\ call.arg = <<utm_source, bing>>
    /\ ~call.threw
    /\ currentConfig.attribution = "first"
    /\ getCookie(memoryStorage, utm_source) = <<>>

\* C2: under last-touch, saveUTM(k, v) on a whitelisted key never throws and
\* getCookie(k) is v right after it, whatever k held before.
C2_LastTouch ==
    [][ (/\ call'.op = "saveUTM"
         /\ currentConfig.attribution = "last"
         /\ call'.arg[1] \in VALID_UTM_PARAMS)
        => /\ ~call'.threw
           /\ getCookie(memoryStorage', call'.arg[1]) = call'.arg[2] ]_vars

\* A last-touch save that replaced the value the key held
C2_Witness ==
    /\ call.op = "saveUTM"
    /\ call.arg = <<utm_source, bing>>
    /\ currentConfig.attribution = "last"
    /\ getCookie(memoryStorage, utm_source) = bing
    /\ getCookie(memoryStorage, utm_medium) = google_ads

C4_InvalidKey ==
    [][ (/\ call'.op \in {"saveUTM", "getUTM"}
         /\ toLowerCase(CallKey(call')) \notin VALID_UTM_PARAMS)
        => /\ call'.threw
           /\ memoryStorage' = memoryStorage
           /\ documentCookie' = documentCookie ]_vars

\* A save under a prefixed key outside the whitelist, thrown under first-touch
\* with the store not empty
C4_Witness ==
    /\ call.op = "saveUTM"
    /\ call.arg[1] = utm_invalid
    /\ call.threw
    /\ currentConfig.attribution = "first"
    /\ DOMAIN memoryStorage = {utm_source}

-----------------------------------------------------------------------------
(* SpecBatch: saveUTMs on batches that mix whitelisted and other keys *)

MaxBatch == 2

BatchValues == {facebook, google_ads}

\* The entries a batch is made of: a whitelisted key with either value, a key
\* outside the whitelist with one value (saveUTM throws before it reads it)
BatchEntries ==
    ((Keys \cap VALID_UTM_PARAMS) \X BatchValues) \cup ((Keys \ VALID_UTM_PARAMS) \X {facebook})

\* Object.entries of a Record<string,string>: pairs with distinct keys
Batches ==
    {b \in UNION {[1..n -> BatchEntries] : n \in 1..MaxBatch} :
        \A i, j \in DOMAIN b : b[i][1] = b[j][1] => i = j}

BatchConfigs ==
    { [attribution |-> "first"],
      [attribution |-> "last"],
      [attribution |-> "dynamic", attributionCallback |-> "alwaysBing"],
      [attribution |-> "dynamic", attributionCallback |-> "throws"] }

NextBatch ==
    \/ \E config \in BatchConfigs : Call_configureUTM(config)
    \/ \E params \in Batches : Call_saveUTMs(params)
    \/ Call_getUTMs

SpecBatch == Init /\ [][NextBatch]_vars

\* obj and other agree on key n: both lack it, or both hold the same value
SameAt(obj, other, n) ==
    /\ (n \in DOMAIN obj) = (n \in DOMAIN other)
    /\ n \in DOMAIN obj => obj[n] = other[n]

\* What saveUTM alone would do with each entry of a batch in the present state
Singles(params) ==
    [i \in DOMAIN params |-> saveUTM(World, params[i][1], params[i][2])]

\* saveUTMs never throws; an entry that saveUTM accepts leaves its key as that
\* saveUTM alone would leave it; an entry saveUTM throws on changes nothing and
\* is reported once; no other key changes.
BatchPerKey(params, single) ==
    /\ ~call'.threw
    /\ \A i \in DOMAIN params :
          LET k == params[i][1]
              after == IF single[i].threw THEN World ELSE single[i]
          IN  /\ SameAt(memoryStorage', after.mem, k)
              /\ SameAt(documentCookie', after.jar, encodeURIComponent(k))
    /\ \A n \in (DOMAIN memoryStorage \cup DOMAIN memoryStorage')
                    \ {params[i][1] : i \in DOMAIN params} :
          SameAt(memoryStorage', memoryStorage, n)
    /\ call'.errors = Cardinality({i \in DOMAIN params : single[i].threw})
                    + Cardinality({i \in DOMAIN params : single[i].errors = 1})

\* The Record<string,string> made of the entries of a batch at the places `at`
EntriesAt(params, at) ==
    [k \in {params[i][1] : i \in at} |-> params[CHOOSE i \in at : params[i][1] = k][2]]

\* C5 as claimed: saveUTMs never throws, handles each entry as saveUTM would,
\* skips the keys outside the whitelist, and from an empty store getUTMs()
\* afterwards is exactly the whitelisted entries of the batch.
C5_Original ==
    [][ call'.op = "saveUTMs"
        => LET params == call'.arg
               single == Singles(params)
               valid == {i \in DOMAIN params :
                            toLowerCase(params[i][1]) \in VALID_UTM_PARAMS}
           IN  /\ BatchPerKey(params, single)
               /\ memoryStorage = EmptyObject
                  => getUTMs(memoryStorage') = EntriesAt(params, valid) ]_vars

\* C5 (amended): saveUTMs never throws, handles each entry as saveUTM would and
\* skips the keys saveUTM throws on; from an empty store getUTMs() afterwards
\* is exactly the accepted entries whose saveUTM decided to write, which is
\* every accepted entry under first-touch, last-touch and dynamic without a
\* callback.
C5_SaveAll ==
    [][ call'.op = "saveUTMs"
        => LET params == call'.arg
               single == Singles(params)
               accepted == {i \in DOMAIN params : ~single[i].threw}
               written == {i \in accepted : params[i][1] \in DOMAIN single[i].mem}
           IN  /\ BatchPerKey(params, single)
               /\ memoryStorage = EmptyObject
                  => /\ getUTMs(memoryStorage') = EntriesAt(params, written)
                     /\ (\/ currentConfig.attribution \in {"first", "last"}
                         \/ "attributionCallback" \notin DOMAIN currentConfig)
                        => written = accepted ]_vars

\* A batch whose first key is rejected and whose second key is stored
C5_Witness ==
    /\ call.op = "saveUTMs"
    /\ call.arg = << <<invalid, facebook>>, <<utm_source, google_ads>> >>
    /\ ~call.threw
    /\ call.errors = 1
    /\ getUTMs(memoryStorage) = (utm_source :> google_ads)

-----------------------------------------------------------------------------
(* SpecLife: one key over time and across page loads *)

\* The instants one second before and after an entry written at 0 with a
\* lifetime of 1 or of 30 days expires
Instants == {d * SecondsPerDay + e : d \in {1, 30}, e \in {-1, 1}}

LifeConfigs == { [attribution |-> "first"], [expirationDays |-> 1] }

NextLife ==
    \/ \E config \in LifeConfigs : Call_configureUTM(config)
    \/ \E value \in {facebook, bing} : Call_saveUTM(utm_source, value)
    \/ Call_getUTM(utm_source)
    \/ Call_getUTMs
    \/ \E t \in Instants : Tick(t)
    \/ Restart

SpecLife == Init /\ [][NextLife]_vars

\* C6 as claimed: an entry that was written and is neither expired nor removed
\* (the browser still holds its cookie) is returned by getCookie, also after a
\* new page load.
C6_Original ==
    \A k \in Keys :
        encodeURIComponent(k) \in LiveCookies(documentCookie)
        => /\ getCookie(memoryStorage, k) # Null
           /\ encodeURIComponent(getCookie(memoryStorage, k))
                = CookieValue(documentCookie[encodeURIComponent(k)])

\* C7 as claimed: an entry written at t with a lifetime of d days is returned
\* one second before t + d * 86400 and is absent from getCookie, getAllCookies
\* and getUTMs one second after it, without any removeCookie.
C7_Original ==
    \A k \in DOMAIN memoryStorage :
        LET expires == CookieExpires(documentCookie[encodeURIComponent(k)])
        IN  /\ now <= expires - 1 => getCookie(memoryStorage, k) = memoryStorage[k].value
            /\ now >= expires + 1
               => /\ getCookie(memoryStorage, k) = Null
                  /\ k \notin DOMAIN getAllCookies(memoryStorage)
                  /\ k \notin DOMAIN getUTMs(memoryStorage)

-----------------------------------------------------------------------------
(* SpecIndex: the engine of index.ts beside cookies of other parts of the page *)

\* The names other parts of the page use in the store
ForeignNames == {utm_invalid, session}

IndexConfigs == { EmptyObject, [attributionCallback |-> "preferGoogle"] }

NextIndex ==
    \/ \E strategy \in Strategies, config \in IndexConfigs :
            Call_configureAttribution(strategy, config)
    \/ \E key \in Keys, value \in {facebook, google_ads}, days \in {0, 30} :
            Call_index_saveUTMs(key, value, days)
    \/ \E key \in Keys : Call_index_getUTM(key)
    \/ Call_index_getUTMs
    \/ Call_getUTMs
    \/ \E name \in ForeignNames : Call_setCookie(name, google, EmptyObject)

SpecIndex == Init /\ [][NextIndex]_vars

\* The entries of the store under a whitelisted name that are not expired
LiveWhitelisted ==
    [k \in {n \in DOMAIN memoryStorage :
                /\ n \in VALID_UTM_PARAMS
                /\ encodeURIComponent(n) \in LiveCookies(documentCookie)}
        |-> memoryStorage[k].value]

\* C8 as claimed: getUTMs() returns exactly the live entries stored under one
\* of the five whitelisted names; an entry another part of the page stored
\* under any other name, prefixed or not, is never in the result.
C8_Original ==
    [][ call'.op \in {"getUTMs", "index.getUTMs"}
        => /\ DOMAIN call'.ret = DOMAIN LiveWhitelisted
           /\ \A k \in DOMAIN call'.ret : call'.ret[k] = LiveWhitelisted[k] ]_vars

-----------------------------------------------------------------------------
(* SpecNames: the engine of utm.ts on keys that differ by case *)

CaseKeys == {utm_source, utm_Source, UTM_SOURCE, utm_invalid}

NextNames ==
    \/ \E config \in {[attribution |-> "first"], [attribution |-> "last"]} :
            Call_configureUTM(config)
    \/ \E key \in CaseKeys, value \in {facebook, google_ads} : Call_saveUTM(key, value)
    \/ \E params \in {<<e>> : e \in CaseKeys \X {bing}} : Call_saveUTMs(params)
    \/ \E key \in CaseKeys : Call_getUTM(key)
    \/ Call_getUTMs

SpecNames == Init /\ [][NextNames]_vars

\* C9 as claimed: whatever configureUTM, saveUTM, saveUTMs, getUTM and getUTMs
\* are called with, a key they add to the store or change in it is one of the
\* five lower-case whitelisted names.
C9_Original ==
    [][ call'.op \in {"configureUTM", "saveUTM", "saveUTMs", "getUTM", "getUTMs"}
        => \A n \in DOMAIN memoryStorage' :
              ~SameAt(memoryStorage', memoryStorage, n) => n \in VALID_UTM_PARAMS ]_vars

-----------------------------------------------------------------------------
(* SpecConfig: configureUTM and configureAttribution called again and again  *)
(* with every combination of fields                                          *)

app_path == <<"/","a","p","p">>

\* A configure call names at most MaxFields fields
MaxFields == 2

\* Partial<UTMConfig> of utm.ts: each field left out or given a value other
\* than its default
PolicyConfigs ==
    {p \in Partial([attribution |-> {"first"},
                    expirationDays |-> {7},
                    domain |-> {example_com},
                    path |-> {app_path},
                    secure |-> {FALSE},
                    sameSite |-> {Strict},
                    attributionCallback |-> {"preferGoogle"}],
                   {"attribution", "expirationDays", "domain", "path", "secure",
                    "sameSite", "attributionCallback"}) :
        Cardinality(DOMAIN p) <= MaxFields}

\* Partial<UTMConfig> of index.ts
IndexPolicyConfigs ==
    {p \in Partial([attribution |-> {"first"},
                    expirationDays |-> {7},
                    domain |-> {example_com},
                    attributionCallback |-> {"preferGoogle"}],
                   {"attribution", "expirationDays", "domain", "attributionCallback"}) :
        Cardinality(DOMAIN p) <= MaxFields}

NextConfig ==
    \/ \E config \in PolicyConfigs : Call_configureUTM(config)
    \/ \E config \in IndexPolicyConfigs : Call_configureAttribution("dynamic", config)
    \/ Call_saveUTM(utm_source, facebook)
    \/ Restart

SpecConfig == Init /\ [][NextConfig]_vars

\* The value of field f in p, or d when p leaves f out
FieldOr(p, f, d) == IF f \in DOMAIN p THEN p[f] ELSE d

\* The policy of utm.ts the claim describes after configure(p)
PolicyOf(p) ==
    [f \in {"attribution", "expirationDays", "path", "secure", "sameSite"} \cup DOMAIN p |->
        CASE f = "attribution" -> FieldOr(p, f, "last")
          [] f = "expirationDays" -> FieldOr(p, f, 30)
          [] f = "path" -> FieldOr(p, f, <<"/">>)
          [] f = "secure" -> FieldOr(p, f, TRUE)
          [] f = "sameSite" -> FieldOr(p, f, <<"L","a","x">>)
          [] OTHER -> p[f]]

\* The policy of index.ts the claim describes after configure(strategy, p)
IndexPolicyOf(strategy, p) ==
    [f \in {"attribution", "expirationDays"} \cup DOMAIN p |->
        CASE f = "attribution" -> strategy
          [] f = "expirationDays" -> FieldOr(p, f, 30)
          [] OTHER -> p[f]]

\* C10: before any configure call the active policy is the defaults (last,
\* 30 days, path "/", secure, Lax, neither callback nor domain); after
\* configure(p) it is the defaults overridden by exactly the fields of p,
\* whatever an earlier configure call had set (configureAttribution takes the
\* strategy as its first argument); no other call changes the policy.
C10_Configure ==
    /\ currentConfig = PolicyOf(EmptyObject)
    /\ indexConfig = IndexPolicyOf("last", EmptyObject)
    /\ [][ /\ call'.op = "configureUTM" => currentConfig' = PolicyOf(call'.arg)
           /\ call'.op = "configureAttribution"
              => indexConfig' = IndexPolicyOf(call'.arg[1], call'.arg[2])
           /\ call'.op = "load"
              => /\ currentConfig' = PolicyOf(EmptyObject)
                 /\ indexConfig' = IndexPolicyOf("last", EmptyObject)
           /\ call'.op # "configureUTM" /\ call'.op # "load"
              => currentConfig' = currentConfig
           /\ call'.op # "configureAttribution" /\ call'.op # "load"
              => indexConfig' = indexConfig ]_vars

\* configureUTM({expirationDays: 7}) has just replaced a policy in which an
\* earlier call had set the domain and the path, as the entry saved under that
\* policy shows
C10_Witness ==
    /\ call.op = "configureUTM"
    /\ call.arg = [expirationDays |-> 7]
    /\ currentConfig = [attribution |-> "last", expirationDays |-> 7, path |-> slash,
                        secure |-> TRUE, sameSite |-> Lax]
    /\ DOMAIN memoryStorage = {utm_source}
    /\ memoryStorage[utm_source].options.path = app_path
    /\ Prop(memoryStorage[utm_source].options, "domain") = example_com

-----------------------------------------------------------------------------
(* SpecStandalone: a page that uses the script-tag build, UTMManager *)

\* A query string holds at most MaxQuery entries
MaxQuery == 2

StandaloneOptions ==
    { EmptyObject, [expirationDays |-> 90], [attribution |-> "first"],
      [domain |-> example_com] }

\* The entries of window.location.search: whitelisted names, a prefixed name
\* outside the whitelist, a name without the prefix
QueryEntries ==
    { <<utm_source, google>>, <<utm_medium, facebook>>, <<utm_invalid, google>>,
      <<session, google>> }

Queries == UNION {[1..n -> QueryEntries] : n \in 0..MaxQuery}

NextStandalone ==
    \/ \E options \in StandaloneOptions : Call_UTMManager_configure(options)
    \/ \E key \in {utm_source, utm_invalid}, value \in {<<>>, google}, days \in {0, 7} :
            Call_UTMManager_saveUTM(key, value, days)
    \/ \E key \in {utm_source, utm_invalid} : Call_UTMManager_getUTM(key)
    \/ Call_UTMManager_getAllUTMs
    \/ \E urlParams \in Queries : Call_UTMManager_autoCapture(urlParams)

SpecStandalone == Init /\ [][NextStandalone]_vars

\* C11 as claimed: when a save writes, the entry it stores lives for the days
\* given with the call or, when none are given, for the expirationDays of the
\* policy in force, and carries the policy's domain; so UTMManager.saveUTM
\* without days after configure({expirationDays: 90}) stores 90 days.
C11_Original ==
    [][ /\ call'.op = "UTMManager.saveUTM"
        /\ ~call'.threw
        /\ call'.arg[1] \in DOMAIN memoryStorage'
        /\ ~SameAt(memoryStorage', memoryStorage, call'.arg[1])
        => LET options == memoryStorage'[call'.arg[1]].options
               days == IF call'.arg[3] # 0 THEN call'.arg[3]
                       ELSE indexConfig.expirationDays
           IN  /\ options.days = days
               /\ CookieExpires(documentCookie'[encodeURIComponent(call'.arg[1])])
                    = now + days * SecondsPerDay
               /\ Prop(options, "domain") = Prop(indexConfig, "domain") ]_vars

\* C15 as claimed: an autoCapture whose query string holds at least one
\* utm_-prefixed entry dispatches exactly one utmParametersUpdated event, after
\* the saves of all entries, with getAllUTMs() of that moment as its detail;
\* one whose query string holds none dispatches nothing and returns false.
C15_Original ==
    [][ call'.op = "UTMManager.autoCapture"
        => IF \E i \in DOMAIN call'.arg : startsWith(call'.arg[i][1], UTM_PREFIX)
           THEN /\ ~call'.threw
                /\ Len(call'.events) = 1
                /\ call'.events[1] = UTMManager_getAllUTMs(memoryStorage')
           ELSE /\ ~call'.threw
                /\ call'.events = <<>>
                /\ call'.ret = FALSE ]_vars

-----------------------------------------------------------------------------
(* SpecStore: the cookie store of cookie.ts used directly *)

StoreNames == {session, utm_source}

\* The empty string and values that hold "=", ";", "&" and a space
StoreValues == { <<>>, google, <<"a","=","b">>, <<"x",";","y","&"," ","z">> }

StoreOptions == { EmptyObject, [days |-> 1], [domain |-> example_com, secure |-> FALSE] }

NextStore ==
    \/ \E config \in {[attribution |-> "first"], [attribution |-> "last"]} :
            Call_configureUTM(config)
    \/ \E name \in StoreNames, value \in StoreValues, options \in StoreOptions :
            Call_setCookie(name, value, options)
    \/ \E name \in StoreNames : Call_getCookie(name)
    \/ \E name \in StoreNames : Call_removeCookie(name, EmptyObject)
    \/ \E discard \in BOOLEAN : Call_areCookiesEnabled(discard)

SpecStore == Init /\ [][NextStore]_vars

\* C12: getCookie(n) right after setCookie(n, v, options) returns v, for the
\* empty string and for values with "=", ";", "&" and spaces, whatever entry n
\* held before and whatever attribution strategy is configured; the jar holds
\* the encoded value.
C12_RoundTrip ==
    [][ call'.op = "setCookie"
        => /\ ~call'.threw
           /\ getCookie(memoryStorage', call'.arg[1]) = call'.arg[2]
           /\ CookieValue(documentCookie'[encodeURIComponent(call'.arg[1])])
                = encodeURIComponent(call'.arg[2]) ]_vars

\* setCookie has stored a value with "=" under utm_source while the strategy
\* is "first"; the jar holds it encoded
C12_Witness ==
    /\ call.op = "setCookie"
    /\ call.arg = <<utm_source, <<"a","=","b">> >>
    /\ currentConfig.attribution = "first"
    /\ getCookie(memoryStorage, utm_source) = <<"a","=","b">>
    /\ encodeURIComponent(utm_source) \in DOMAIN documentCookie
    /\ CookieValue(documentCookie[encodeURIComponent(utm_source)]) = <<"a","%","3","D","b">>

\* C13: removeCookie(n) never throws and leaves n absent, whether n was
\* present or absent before (so also when it is called twice in a row); every
\* other entry of the store and of the jar is unchanged.
C13_Remove ==
    [][ call'.op = "removeCookie"
        => /\ ~call'.threw
           /\ getCookie(memoryStorage', call'.arg) = Null
           /\ encodeURIComponent(call'.arg) \notin DOMAIN documentCookie'
           /\ \A n \in StoreNames \ {call'.arg} :
                /\ SameAt(memoryStorage', memoryStorage, n)
                /\ SameAt(documentCookie', documentCookie, encodeURIComponent(n)) ]_vars

\* removeCookie(session) has left the entry of utm_source in place
C13_Witness ==
    /\ call.op = "removeCookie"
    /\ call.arg = session
    /\ DOMAIN memoryStorage = {utm_source}
    /\ DOMAIN documentCookie = {encodeURIComponent(utm_source)}

\* C14 as claimed: areCookiesEnabled() returns true exactly when the sentinel
\* it wrote can be read back from the browser's jar; it returns false when the
\* browser discards the write.
C14_Original ==
    [][ call'.op = "areCookiesEnabled"
        => LET written == Blocked(World, setCookie(World, test_name, one, EmptyObject),
                                  call'.arg)
               name == encodeURIComponent(test_name)
           IN  call'.ret = (/\ name \in LiveCookies(written.jar)
                            /\ CookieValue(written.jar[name]) = encodeURIComponent(one)) ]_vars

-----------------------------------------------------------------------------
(* SpecCallback: the "dynamic" strategy without a callback and with a        *)
(* callback that throws, in both engines                                     *)

CallbackConfigs ==
    { [attribution |-> "last"],
      [attribution |-> "dynamic"],
      [attribution |-> "dynamic", attributionCallback |-> "throws"] }

\* Batches of one and two whitelisted keys, and one that starts with a key
\* outside the whitelist
CallbackBatches ==
    { << <<utm_source, facebook>> >>,
      << <<utm_source, google_ads>>, <<utm_medium, facebook>> >>,
      << <<utm_invalid, facebook>>, <<utm_medium, google_ads>> >> }

NextCallback ==
    \/ \E config \in CallbackConfigs : Call_configureUTM(config)
    \/ \E key \in {utm_source, utm_invalid}, value \in BatchValues :
            Call_saveUTM(key, value)
    \/ \E params \in CallbackBatches : Call_saveUTMs(params)
    \/ \E strategy \in {"first", "dynamic"},
          config \in {EmptyObject, [attributionCallback |-> "throws"]} :
            Call_configureAttribution(strategy, config)
    \/ \E key \in {utm_source, utm_invalid}, value \in BatchValues :
            Call_index_saveUTMs(key, value, 0)

SpecCallback == Init /\ [][NextCallback]_vars

\* The policy config names the callback cb
CallbackIs(config, cb) ==
    /\ "attributionCallback" \in DOMAIN config
    /\ config.attributionCallback = cb

\* The stores are as the call found them
StoresUnchanged == UNCHANGED <<memoryStorage, documentCookie>>

\* C17: when the callback of the "dynamic" strategy throws, saveUTM on a
\* whitelisted key returns without throwing, writes nothing and reports the
\* failure with one console.error; saveUTMs does so for each of its keys and
\* goes on to the next one (every entry of the batch is reported once, a key
\* outside the whitelist included); saveUTMs of index.ts behaves like saveUTM.
C17_CallbackThrows ==
    [][ /\ ( /\ call'.op = "saveUTM"
             /\ call'.arg[1] \in VALID_UTM_PARAMS
             /\ currentConfig.attribution = "dynamic"
             /\ CallbackIs(currentConfig, "throws") )
           => ~call'.threw /\ call'.errors = 1 /\ StoresUnchanged
        /\ ( /\ call'.op = "saveUTMs"
             /\ currentConfig.attribution = "dynamic"
             /\ CallbackIs(currentConfig, "throws") )
           => ~call'.threw /\ call'.errors = Len(call'.arg) /\ StoresUnchanged
        /\ ( /\ call'.op = "index.saveUTMs"
             /\ call'.arg[1] \in VALID_UTM_PARAMS
             /\ indexConfig.attribution = "dynamic"
             /\ CallbackIs(indexConfig, "throws") )
           => ~call'.threw /\ call'.errors = 1 /\ StoresUnchanged ]_vars

\* saveUTMs has gone through two whitelisted keys under a callback that
\* throws, one of them stored before: two reports, the entry still there
C17_Witness ==
    /\ call.op = "saveUTMs"
    /\ Len(call.arg) = 2
    /\ call.arg[1][1] = utm_source
    /\ call.errors = 2
    /\ ~call.threw
    /\ CallbackIs(currentConfig, "throws")
    /\ getCookie(memoryStorage, utm_source) = facebook
    /\ utm_medium \notin DOMAIN memoryStorage

\* C18: under "dynamic" without a callback every saveUTM on a whitelisted key
\* writes its value, whatever the key held, as under "last"; so does saveUTMs
\* of index.ts.
C18_DynamicNoCallback ==
    [][ /\ ( /\ call'.op = "saveUTM"
             /\ call'.arg[1] \in VALID_UTM_PARAMS
             /\ currentConfig.attribution = "dynamic"
             /\ "attributionCallback" \notin DOMAIN currentConfig )
           => /\ ~call'.threw
              /\ call'.errors = 0
              /\ getCookie(memoryStorage', call'.arg[1]) = call'.arg[2]
        /\ ( /\ call'.op = "index.saveUTMs"
             /\ call'.arg[1] \in VALID_UTM_PARAMS
             /\ indexConfig.attribution = "dynamic"
             /\ "attributionCallback" \notin DOMAIN indexConfig )
           => /\ ~call'.threw
              /\ call'.errors = 0
              /\ getCookie(memoryStorage', call'.arg[1]) = call'.arg[2] ]_vars

\* saveUTM has replaced 'facebook' by 'google-ads' under "dynamic" without a
\* callback
C18_Witness ==
    /\ call.op = "saveUTM"
    /\ call.arg = <<utm_source, google_ads>>
    /\ currentConfig.attribution = "dynamic"
    /\ "attributionCallback" \notin DOMAIN currentConfig
    /\ getCookie(memoryStorage, utm_source) = google_ads
    /\ memoryStorage[utm_source].options.days = 30

-----------------------------------------------------------------------------
(* Further claims about single saves and reads *)

\* C16 as claimed (under Spec): under "dynamic" with the callback that prefers
\* google, saveUTM on a whitelisted key that holds no value stores the incoming
\* value, also when the callback answers with its current argument: after
\* saveUTM(k, 'facebook') on an empty key getUTM(k) is 'facebook'.
C16_Original ==
    [][ /\ call'.op = "saveUTM"
        /\ call'.arg[1] \in VALID_UTM_PARAMS
        /\ currentConfig.attribution = "dynamic"
        /\ CallbackIs(currentConfig, "preferGoogle")
        /\ getCookie(memoryStorage, call'.arg[1]) = Null
        => getCookie(memoryStorage', call'.arg[1]) = call'.arg[2] ]_vars

\* C19 as claimed (under SpecNames): saveUTM and getUTM lower-case the key
\* first: every case variant K of a whitelisted name is accepted, a save under
\* K that writes (strategy "last") is read back under the lower-case name, and
\* getUTM(K) returns what getUTM of the lower-case name returns.
C19_Original ==
    [][ /\ ( /\ call'.op = "saveUTM"
             /\ toLowerCase(call'.arg[1]) \in VALID_UTM_PARAMS )
           => /\ ~call'.threw
              /\ currentConfig.attribution = "last"
                 => getCookie(memoryStorage', toLowerCase(call'.arg[1])) = call'.arg[2]
        /\ ( /\ call'.op = "getUTM"
             /\ toLowerCase(call'.arg) \in VALID_UTM_PARAMS )
           => /\ ~call'.threw
              /\ call'.ret = getCookie(memoryStorage, toLowerCase(call'.arg)) ]_vars

\* C20 as claimed (under SpecStandalone): getUTM on a whitelisted key never
\* throws and returns what the store holds under the key: the stored value,
\* the empty string when that is what is stored, and absent only when the
\* store holds no entry.
C20_Original ==
    [][ /\ call'.op = "UTMManager.getUTM"
        /\ call'.arg \in VALID_UTM_PARAMS
        => /\ ~call'.threw
           /\ call'.ret = IF call'.arg \in DOMAIN memoryStorage
                          THEN memoryStorage[call'.arg].value
                          ELSE Undefined ]_vars

\* C21 as claimed (under SpecStandalone): autoCapture goes through every
\* utm_-prefixed entry of the query string: it never throws, every entry under
\* a whitelisted key is in the store afterwards although an entry under a
\* prefixed key outside the whitelist stands before it, no key outside the
\* whitelist is added, and the event is dispatched.
C21_Original ==
    [][ /\ call'.op = "UTMManager.autoCapture"
        /\ \E i \in DOMAIN call'.arg : startsWith(call'.arg[i][1], UTM_PREFIX)
        => /\ ~call'.threw
           /\ \A i \in DOMAIN call'.arg :
                call'.arg[i][1] \in VALID_UTM_PARAMS
                => call'.arg[i][1] \in DOMAIN memoryStorage'
           /\ DOMAIN memoryStorage' \ DOMAIN memoryStorage \subseteq VALID_UTM_PARAMS
           /\ Len(call'.events) = 1 ]_vars

-----------------------------------------------------------------------------
(* SpecHook: a component that renders useUTMs, mounted again on every page   *)
(* load                                                                      *)

\* The configs useUTMs is called with: a strategy, an onUpdate listener, and
\* capture on mount
HookConfigs ==
    { [attribution |-> "first"],
      [onUpdate |-> "listener"],
      [autoCapture |-> TRUE, onUpdate |-> "listener"] }

\* The query strings of the page
HookQueries ==
    { <<>>,
      << <<session, google>> >>,
      << <<utm_source, google>>, <<utm_medium, facebook>> >>,
      << <<utm_invalid, google>>, <<utm_source, facebook>> >> }

NextHook ==
    \/ \E config \in HookConfigs, searchParams \in HookQueries :
            Call_useUTMs(TRUE, config, searchParams)
    \/ Call_useUTMs(FALSE, EmptyObject, <<>>)
    \/ \E key \in {utm_source, utm_invalid, invalid}, value \in BatchValues :
            Call_hook_setParam(key, value, 0)
    \/ \E newParams \in CallbackBatches : Call_hook_setParams(newParams, 0)
    \/ \E searchParams \in HookQueries : Call_hook_captureFromURL(searchParams)
    \/ \E key \in {utm_source, invalid} : Call_hook_getParam(key)
    \/ \E strategy \in {"first", "last"} : Call_hook_configure(strategy, EmptyObject)
    \/ Restart

SpecHook == Init /\ [][NextHook]_vars

\* C22 as claimed: after every setParam, setParams and captureFromURL call of
\* the hook, params equals getUTMs() of the engine: a value that the strategy
\* or the key validation rejected is not in params.
C22_Original ==
    [][ call'.op \in {"hook.setParam", "hook.setParams", "hook.captureFromURL"}
        => /\ DOMAIN hook'.params = DOMAIN index_getUTMs(memoryStorage')
           /\ \A k \in DOMAIN hook'.params :
                hook'.params[k] = index_getUTMs(memoryStorage')[k] ]_vars

\* C29: setParam of the hook with a key that validateUTMKey rejects returns
\* without throwing, calls console.error once, does not call onUpdate, and
\* leaves params, memoryStorage and the jar as they were.
C29_InvalidKey ==
    [][ /\ call'.op = "hook.setParam"
        /\ validateUTMKey(call'.arg[1])
        => /\ ~call'.threw
           /\ call'.errors = 1
           /\ call'.updates = <<>>
           /\ hook' = hook
           /\ StoresUnchanged ]_vars

\* setParam('invalid', ..) has returned in a component with an onUpdate
\* listener whose params and store hold utm_source
C29_Witness ==
    /\ call.op = "hook.setParam"
    /\ call.arg[1] = invalid
    /\ call.errors = 1
    /\ hook.onUpdate
    /\ DOMAIN hook.params = {utm_source}
    /\ DOMAIN memoryStorage = {utm_source}

-----------------------------------------------------------------------------
(* SpecBackend: the store and the engine of utm.ts in a document that may    *)
(* refuse assignments to document.cookie                                     *)

NextBackend ==
    \/ \E b \in {"stores", "throws"} : BackendBecomes(b)
    \/ \E value \in {<<>>, google} : Call_setCookie(session, value, EmptyObject)
    \/ \E name \in StoreNames : Call_getCookie(name)
    \/ Call_removeCookie(session, EmptyObject)
    \/ \E value \in BatchValues : Call_saveUTM(utm_source, value)
    \/ Call_getUTM(utm_source)
    \/ Call_areCookiesEnabled(FALSE)

SpecBackend == Init /\ [][NextBackend]_vars

\* C23 as claimed: when the assignment to document.cookie throws, setCookie
\* and a saveUTM that writes (strategy "last") do not throw, and the value is
\* in memoryStorage, so that getCookie returns it.
C23_Original ==
    [][ /\ call'.op \in {"setCookie", "saveUTM"}
        /\ backend = "throws"
        => /\ ~call'.threw
           /\ getCookie(memoryStorage', call'.arg[1]) = call'.arg[2] ]_vars

-----------------------------------------------------------------------------
(* SpecPolicy: both engines reconfigured between their saves *)

NextPolicy ==
    \/ \E config \in { [expirationDays |-> 7], [domain |-> example_com],
                        [attribution |-> "first", path |-> app_path] } :
            Call_configureUTM(config)
    \/ \E strategy \in {"first", "last"}, config \in {EmptyObject, [expirationDays |-> 7]} :
            Call_configureAttribution(strategy, config)
    \/ \E value \in BatchValues : Call_saveUTM(utm_source, value)
    \/ Call_index_saveUTMs(utm_medium, google_ads, 0)

SpecPolicy == Init /\ [][NextPolicy]_vars

\* C24: configureUTM and configureAttribution leave
\* memoryStorage and the jar as they were, every entry with its value, its
\* lifetime and its options, so that getUTM of either engine on every key and
\* getUTMs of either engine return after the call what they returned before it.
C24_ConfigureNoIO ==
    [][ call'.op \in {"configureUTM", "configureAttribution"}
        => LET after == [mem |-> memoryStorage', jar |-> documentCookie']
           IN  /\ StoresUnchanged
               /\ \A k \in VALID_UTM_PARAMS :
                    /\ getUTM(after, k).ret = getUTM(World, k).ret
                    /\ index_getUTM(after, k).ret = index_getUTM(World, k).ret
               /\ getUTMs(after.mem) = getUTMs(World.mem)
               /\ index_getUTMs(after.mem) = index_getUTMs(World.mem) ]_vars

\* configureUTM({domain}) has just replaced a policy of 7 days and no domain,
\* under which utm_source was stored: the entry keeps its 7 days and has no
\* domain
C24_Witness ==
    /\ call.op = "configureUTM"
    /\ call.arg = [domain |-> example_com]
    /\ currentConfig.expirationDays = 30
    /\ DOMAIN memoryStorage = {utm_source}
    /\ memoryStorage[utm_source].options.days = 7
    /\ "domain" \notin DOMAIN memoryStorage[utm_source].options
    /\ CookieExpires(documentCookie[encodeURIComponent(utm_source)]) = 7 * SecondsPerDay

-----------------------------------------------------------------------------
(* SpecCookieName: isValidCookieName on every short name over a few          *)
(* characters                                                                *)

\* A name has at most MaxName characters
MaxName == 2

\* A letter, the first and the last character of the class, "-", "@", and the
\* characters a cookie name must not hold: a control character, the space,
\* the double quote, the comma, the semicolon, the backslash and "="
NameChars == {"a", "!", "~", "-", "@", "\t", " ", "\"", ",", ";", "\\", "="}

CookieNames == UNION {[1..n -> NameChars] : n \in 0..MaxName}

NextCookieName == \E name \in CookieNames : Call_isValidCookieName(name)

SpecCookieName == Init /\ [][NextCookieName]_vars

\* C25 as claimed: isValidCookieName(name) is true exactly when name is not
\* empty and each of its characters is a printable ASCII character other than
\* whitespace, the double quote, the comma, the semicolon, the backslash and
\* "="; a name with "=" is invalid.
C25_Original ==
    [][ call'.op = "isValidCookieName"
        => call'.ret = (/\ Len(call'.arg) >= 1
                        /\ \A i \in DOMAIN call'.arg :
                            /\ CodePoint(call'.arg[i]) \in 33..126
                            /\ call'.arg[i] \notin {"\"", ",", ";", "\\", "="}) ]_vars

-----------------------------------------------------------------------------
(* SpecReadAll: entries written with a lifetime of 1 or 30 days, removed, and *)
(* read with getAllCookies while time passes, within one page load            *)

NextReadAll ==
    \/ \E name \in StoreNames, value \in {google, facebook},
          options \in {EmptyObject, [days |-> 1]} :
            Call_setCookie(name, value, options)
    \/ \E name \in StoreNames : Call_removeCookie(name, EmptyObject)
    \/ Call_getAllCookies
    \/ \E t \in Instants : Tick(t)

SpecReadAll == Init /\ [][NextReadAll]_vars

\* The names whose last write is neither removed nor expired: the cookies the
\* browser still holds
LiveNames == {n \in StoreNames : encodeURIComponent(n) \in LiveCookies(documentCookie)}

\* C26 as claimed: getAllCookies() returns a mapping whose keys are exactly the
\* names that were written and have not since been removed or expired, each
\* with the value of its last write.
C26_Original ==
    [][ call'.op = "getAllCookies"
        => /\ DOMAIN call'.ret = LiveNames
           /\ \A n \in LiveNames :
                encodeURIComponent(call'.ret[n])
                    = CookieValue(documentCookie[encodeURIComponent(n)]) ]_vars

-----------------------------------------------------------------------------
(* SpecJar: the tests of the store, each after the setup that empties the    *)
(* browser's jar                                                             *)

JarNames == {test, first, second}

NextJar ==
    \/ Test_beforeEach
    \/ \E name \in JarNames : Call_setCookie(name, value1, EmptyObject)
    \/ \E name \in JarNames : Call_getCookie(name)
    \/ Call_getAllCookies

SpecJar == Init /\ [][NextJar]_vars

\* C27 as claimed: reads reflect the browser's jar.  Right after the setup
\* has expired every cookie in the jar, getCookie is null for every name and
\* getAllCookies is empty; and getAllCookies returns exactly the names the jar
\* holds, so {first, second} after the setup and the two writes.
C27_Original ==
    [][ /\ call'.op = "beforeEach"
           => /\ \A n \in JarNames : getCookie(memoryStorage', n) = Null
              /\ getAllCookies(memoryStorage') = EmptyObject
        /\ call'.op = "getAllCookies"
           => DOMAIN call'.ret
                = {n \in JarNames : encodeURIComponent(n) \in LiveCookies(documentCookie')}
      ]_vars

-----------------------------------------------------------------------------
(* The use saveUTM makes of the attribution callback *)

\* C28 (under Spec): saveUTM invokes the attribution callback at most once,
\* and only under "dynamic" on a key that passed both validations; under
\* "first" and "last" a configured callback is never invoked and the save
\* writes exactly as the strategy says (under "first" when the key holds
\* nothing, under "last" always), without a console.error.
C28_CallbackUse ==
    [][ call'.op = "saveUTM"
        => LET k == call'.arg[1]
               v == call'.arg[2]
           IN  /\ call'.invoked <= 1
               /\ call'.invoked = 1
                  => /\ currentConfig.attribution = "dynamic"
                     /\ startsWith(k, UTM_PREFIX)
                     /\ toLowerCase(k) \in VALID_UTM_PARAMS
                     /\ ~call'.threw
               /\ (currentConfig.attribution \in {"first", "last"} /\ k \in VALID_UTM_PARAMS)
                  => /\ call'.invoked = 0
                     /\ call'.errors = 0
                     /\ IF currentConfig.attribution = "last"
                           \/ getCookie(memoryStorage, k) = Null
                        THEN getCookie(memoryStorage', k) = v
                        ELSE StoresUnchanged ]_vars

\* A last-touch save has replaced the value of utm_source while a callback
\* that throws is configured: it was not invoked
C28_Witness ==
    /\ call.op = "saveUTM"
    /\ call.arg = <<utm_source, facebook>>
    /\ currentConfig.attribution = "last"
    /\ CallbackIs(currentConfig, "throws")
    /\ call.invoked = 0
    /\ call.errors = 0
    /\ getCookie(memoryStorage, utm_source) = facebook
    /\ getCookie(memoryStorage, utm_medium) = bing

-----------------------------------------------------------------------------
(* SpecTabs: two tabs of one browser write and read the same names in any    *)
(* order                                                                     *)

NextTabs ==
    \/ \E name \in StoreNames, value \in BatchValues : Call_setCookie(name, value, EmptyObject)
    \/ \E name \in StoreNames, value \in BatchValues : Tab_setCookie(name, value, EmptyObject)
    \/ \E name \in StoreNames : Call_getCookie(name)
    \/ \E name \in StoreNames : Tab_getCookie(name)

SpecTabs == Init /\ [][NextTabs]_vars

\* C30 as claimed: when two tabs write the same name in any interleaving, the
\* last writer wins: getCookie in either tab returns the value of the write
\* that came last, which is the value of the cookie the shared jar holds.
C30_Original ==
    [][ /\ call'.op \in {"getCookie", "tab.getCookie"}
        /\ encodeURIComponent(call'.arg) \in LiveCookies(documentCookie)
        => /\ call'.ret # Null
           /\ encodeURIComponent(call'.ret)
                = CookieValue(documentCookie[encodeURIComponent(call'.arg)]) ]_vars

-----------------------------------------------------------------------------
(* SpecSerial: what setCookie assigns to document.cookie, called directly    *)
(* and through saveUTM, with and without each optional attribute, at         *)
(* several instants                                                          *)

\* Options with and without a domain, with sameSite overridden by undefined
\* or by another policy, with secure switched off, and with an empty domain
SerialOptions ==
    { EmptyObject,
      [days |-> 1, domain |-> example_com, sameSite |-> Undefined, secure |-> FALSE],
      [domain |-> example_com, sameSite |-> Strict],
      [sameSite |-> Undefined],
      [domain |-> <<>>, secure |-> FALSE] }

SerialConfigs ==
    { [expirationDays |-> 7], [domain |-> example_com, secure |-> FALSE],
      [sameSite |-> Undefined] }

NextSerial ==
    \/ \E config \in SerialConfigs : Call_configureUTM(config)
    \/ \E options \in SerialOptions : Call_setCookie(session, <<"a","=","b">>, options)
    \/ Call_saveUTM(utm_source, google_ads)
    \/ \E t \in {SecondsPerDay - 1, 30 * SecondsPerDay + 1} : Tick(t)

SpecSerial == Init /\ [][NextSerial]_vars

\* An option that holds a value: a key that is absent, undefined or the empty
\* string holds none
IsSet(options, k) == k \in DOMAIN options /\ options[k] \notin {<<>>, Undefined}

\* The place of an optional attribute among the optional attributes
AttributeRank(a) == CASE a = "domain" -> 1 [] a = "samesite" -> 2 [] a = "secure" -> 3

\* C31: the cookie string that setCookie (called directly, or by a saveUTM
\* that writes) assigns to document.cookie for an entry is name=value, both
\* percent-encoded, then expires, then path, then domain exactly when the
\* entry's options hold a domain, samesite exactly when they hold a sameSite
\* policy, and the bare flag secure exactly when secure is true, in that
\* order; expires is the instant of the write plus days * 86400 seconds, and
\* days is expirationDays of the policy when saveUTM writes.
C31_Serialized ==
    [][ call'.op \in {"setCookie", "saveUTM"}
        => LET name == call'.arg[1]
               value == call'.arg[2]
               options == memoryStorage'[name].options
               written == documentCookie'[encodeURIComponent(name)]
               optional == 4..Len(written)
           IN  /\ encodeURIComponent(name) \in DOMAIN documentCookie'
               /\ Len(written) >= 3
               /\ written[1] = <<encodeURIComponent(name), encodeURIComponent(value)>>
               /\ written[2] = <<"expires", now + options.days * SecondsPerDay>>
               /\ written[3] = <<"path", options.path>>
               /\ call'.op = "saveUTM" => options.days = currentConfig.expirationDays
               /\ \A i \in optional : written[i][1] \in {"domain", "samesite", "secure"}
               /\ \A i, j \in optional :
                    i < j => AttributeRank(written[i][1]) < AttributeRank(written[j][1])
               /\ IsSet(options, "domain")
                    <=> \E i \in optional : written[i][1] = "domain"
               /\ IsSet(options, "sameSite")
                    <=> \E i \in optional : written[i][1] = "samesite"
               /\ options.secure <=> \E i \in optional : written[i][1] = "secure"
               /\ \A i \in optional :
                    /\ written[i][1] = "domain" => written[i] = <<"domain", options.domain>>
                    /\ written[i][1] = "samesite"
                        => written[i] = <<"samesite", options.sameSite>>
                    /\ written[i][1] = "secure" => Len(written[i]) = 1 ]_vars

\* One day short of a second after the load, setCookie has written an entry of
\* one day with a domain, no sameSite policy and secure off: its string is
\* name=value, expires, path and domain, and nothing more
C31_Witness ==
    /\ call.op = "setCookie"
    /\ now = SecondsPerDay - 1
    /\ encodeURIComponent(session) \in DOMAIN documentCookie
    /\ documentCookie[encodeURIComponent(session)]
        = << <<session, <<"a","%","3","D","b">> >>,
             <<"expires", 2 * SecondsPerDay - 1>>,
             <<"path", slash>>,
             <<"domain", example_com>> >>

-----------------------------------------------------------------------------
(* SpecStructured: texts and JSON values written under one name with a       *)
(* lifetime of 1 or 30 days, removed, and read with getJSONCookie while time *)
(* passes                                                                    *)

\* {invalid:json} of the test, an object that is not closed, the empty text,
\* and an array with a comma too many
InvalidTexts ==
    { <<"{","i","n","v","a","l","i","d",":","j","s","o","n","}">>,
      <<"{">>,
      <<>>,
      <<"[","1",",","]">> }

\* {"a":1}, [1,"a"], null and 10
ValidTexts ==
    { <<"{","\"","a","\"",":","1","}">>,
      <<"[","1",",","\"","a","\"","]">>,
      <<"n","u","l","l">>,
      <<"1","0">> }

\* { name: "Test", value: 123 } and [1, 2, 3, "test"] of the tests
StructuredValues ==
    { <<"object", << << <<"n","a","m","e">>, <<"string", <<"T","e","s","t">> >> >>,
                     << <<"v","a","l","u","e">>, <<"number", <<"1","2","3">> >> >> >> >>,
      <<"array", << <<"number", <<"1">> >>, <<"number", <<"2">> >>,
                    <<"number", <<"3">> >>, <<"string", test>> >> >> }

NextStructured ==
    \/ \E text \in InvalidTexts \cup ValidTexts, options \in {EmptyObject, [days |-> 1]} :
            Call_setCookie(session, text, options)
    \/ \E value \in StructuredValues : Call_setJSONCookie(session, value, EmptyObject)
    \/ \E name \in StoreNames : Call_getJSONCookie(name)
    \/ Call_removeCookie(session, EmptyObject)
    \/ \E t \in Instants : Tick(t)

SpecStructured == Init /\ [][NextStructured]_vars

\* C32 as claimed: getJSONCookie(n) never throws and leaves the store
\* unchanged; it returns null when n has no live entry (it was never written,
\* was removed, or has expired), and when the text stored under n is not valid
\* JSON.
C32_Original ==
    [][ call'.op = "getJSONCookie"
        => /\ ~call'.threw
           /\ StoresUnchanged
           /\ encodeURIComponent(call'.arg) \notin LiveCookies(documentCookie)
                => call'.ret = Null
           /\ getCookie(memoryStorage, call'.arg) \in InvalidTexts
                => call'.ret = Null ]_vars

-----------------------------------------------------------------------------
(* SpecFrame: saveUTM on several keys next to an entry of another part of    *)
(* the page, under the three strategies, in a document that may refuse       *)
(* assignments to document.cookie                                            *)

FrameConfigs ==
    { [attribution |-> "first"],
      [attribution |-> "dynamic", attributionCallback |-> "preferGoogle", expirationDays |-> 7],
      [attribution |-> "dynamic", attributionCallback |-> "throws"] }

NextFrame ==
    \/ \E config \in FrameConfigs : Call_configureUTM(config)
    \/ \E key \in {utm_source, utm_medium, utm_invalid}, value \in BatchValues :
            Call_saveUTM(key, value)
    \/ Call_setCookie(session, google, EmptyObject)
    \/ \E b \in {"stores", "throws"} : BackendBecomes(b)

SpecFrame == Init /\ [][NextFrame]_vars

\* C33: saveUTM(k, v) changes at most the entry of k: the entry of every other
\* name in memoryStorage and in the jar, and the policy of both engines, are
\* after the call what they were before it, whether the call writes, does
\* nothing (the strategy keeps the stored value, or the callback throws), or
\* throws (a key outside the whitelist, or an assignment to document.cookie
\* that throws).
C33_SaveFrame ==
    [][ call'.op = "saveUTM"
        => LET k == call'.arg[1]
           IN  /\ \A n \in (DOMAIN memoryStorage \cup DOMAIN memoryStorage') \ {k} :
                    SameAt(memoryStorage', memoryStorage, n)
               /\ \A n \in (DOMAIN documentCookie \cup DOMAIN documentCookie')
                            \ {encodeURIComponent(k)} :
                    SameAt(documentCookie', documentCookie, n)
               /\ currentConfig' = currentConfig
               /\ indexConfig' = indexConfig ]_vars

\* saveUTM(utm_source, facebook) has thrown in a document that refuses the
\* assignment: memoryStorage holds the new value, the jar the value written
\* before; the entries of utm_medium and session and the 7-day policy are in
\* place
C33_Witness ==
    /\ call.op = "saveUTM"
    /\ call.arg = <<utm_source, facebook>>
    /\ call.threw
    /\ backend = "throws"
    /\ currentConfig.expirationDays = 7
    /\ DOMAIN memoryStorage = {utm_source, utm_medium, session}
    /\ getCookie(memoryStorage, utm_source) = facebook
    /\ getCookie(memoryStorage, utm_medium) = google_ads
    /\ DOMAIN documentCookie = {utm_source, utm_medium, session}
    /\ CookieValue(documentCookie[utm_source]) = google_ads

-----------------------------------------------------------------------------
(* SpecFirst: first-touch saves on one key while the policy is reconfigured  *)
(* with another lifetime or another domain, time passes and the page is      *)
(* loaded again                                                              *)

FirstConfigs ==
    { EmptyObject,
      [attribution |-> "first"],
      [attribution |-> "first", expirationDays |-> 7],
      [attribution |-> "first", domain |-> example_com] }

NextFirst ==
    \/ \E config \in FirstConfigs : Call_configureUTM(config)
    \/ \E value \in BatchValues : Call_saveUTM(utm_source, value)
    \/ \E t \in {SecondsPerDay, 7 * SecondsPerDay + 1} : Tick(t)
    \/ Restart

SpecFirst == Init /\ [][NextFirst]_vars

\* C34: under "first", saveUTM(k, v) on a key for which getCookie(k) is not
\* null does not throw and leaves the entry of k as it was: its value, its
\* days and its other options in memoryStorage, and the cookie of k in the jar
\* with its expires instant, its path and its domain.  The lifetime of the
\* stored value is not extended, whatever expirationDays and domain the
\* policy in force has and whatever time has passed since the write.
C34_FirstKeeps ==
    [][ /\ call'.op = "saveUTM"
        /\ currentConfig.attribution = "first"
        /\ getCookie(memoryStorage, call'.arg[1]) # Null
        => LET k == call'.arg[1]
           IN  /\ ~call'.threw
               /\ k \in DOMAIN memoryStorage'
               /\ memoryStorage'[k].value = memoryStorage[k].value
               /\ memoryStorage'[k].options = memoryStorage[k].options
               /\ SameAt(documentCookie', documentCookie, encodeURIComponent(k))
               /\ encodeURIComponent(k) \in DOMAIN documentCookie
                    => CookieExpires(documentCookie'[encodeURIComponent(k)])
                        = CookieExpires(documentCookie[encodeURIComponent(k)]) ]_vars

\* One day after utm_source was stored for 30 days without a domain, and
\* after the policy became first-touch with 7 days, saveUTM(utm_source,
\* google-ads) on the stored google-ads has left the entry with its 30 days
\* counted from the write
C34_Witness ==
    /\ call.op = "saveUTM"
    /\ call.arg = <<utm_source, google_ads>>
    /\ ~call.threw
    /\ now = SecondsPerDay
    /\ currentConfig.attribution = "first"
    /\ currentConfig.expirationDays = 7
    /\ utm_source \in DOMAIN memoryStorage
    /\ memoryStorage[utm_source].value = google_ads
    /\ memoryStorage[utm_source].options.days = 30
    /\ utm_source \in DOMAIN documentCookie
    /\ CookieExpires(documentCookie[utm_source]) = 30 * SecondsPerDay

-----------------------------------------------------------------------------
(* SpecProbe: areCookiesEnabled called on a store that holds entries of the  *)
(* page, one of them under the name of the sentinel, in a document that may  *)
(* refuse assignments to document.cookie                                     *)

NextProbe ==
    \/ \E name \in {session, test_name}, value \in {google, one} :
            Call_setCookie(name, value, EmptyObject)
    \/ Call_areCookiesEnabled(FALSE)
    \/ Call_getAllCookies
    \/ \E b \in {"stores", "throws"} : BackendBecomes(b)

SpecProbe == Init /\ [][NextProbe]_vars

\* C35 as claimed: areCookiesEnabled() leaves the store as it found it:
\* getAllCookies() after the call equals getAllCookies() before it, whatever
\* the store held; the sentinel __test__ is not left behind, and no entry that
\* was there before is changed or removed.
C35_Original ==
    [][ call'.op = "areCookiesEnabled"
        => /\ getAllCookies(memoryStorage') = getAllCookies(memoryStorage)
           /\ test_name \notin DOMAIN memoryStorage
                => test_name \notin DOMAIN getAllCookies(memoryStorage') ]_vars

=============================================================================
